---- MODULE Spec2Model ----
(***************************************************************************)
(* The intercepting worker of the Riders Luxury web client                 *)
(* (src/unnamed/part_000): store lifecycle, the three caching strategies   *)
(* and the background-sync drains, as a state machine.                     *)
(***************************************************************************)
EXTENDS Integers, Sequences, FiniteSets, TLC

\* ------------------------------------------------------------------ bounds
\* fetch events delivered in one behaviour, each with its own handler
MaxFetch == 2
\* distinct bodies the network can serve for one URL
MaxBody == 2
\* stores left behind by earlier generations when the worker is installed
MaxStale == 1
\* tasks persisted in the offline queue when the worker starts
MaxTasks == 2
\* sync events delivered in one behaviour, each with its own handler
MaxDrains == 2
\* push events in one behaviour
MaxPush == 2
\* entries the dynamic store can hold when the worker starts
MaxSeed == 52
\* path segments of a URL handed to the classification
MaxSegments == 4
\* application windows open when a notification is clicked
MaxWindows == 2
MaxMessages == 2
MaxCalls == 3

\* ------------------------------------------------------- sequences of tokens
\* URLs paths and store names are sequences of tokens, so that the string
\* tests of the code (endsWith, startsWith, includes) are computed on them.
StartsWith(s, p) ==
  /\ Len(p) <= Len(s)
  /\ SubSeq(s, 1, Len(p)) = p

EndsWith(s, p) ==
  /\ Len(p) <= Len(s)
  /\ SubSeq(s, Len(s) - Len(p) + 1, Len(s)) = p

Includes(s, p) ==
  \E i \in 1..(Len(s) + 1) :
    /\ i + Len(p) - 1 <= Len(s)
    /\ SubSeq(s, i, i + Len(p) - 1) = p

ToLowerCaseToken(t) ==
  CASE t = ".JS" -> ".js"
    [] t = ".CSS" -> ".css"
    [] t = ".PNG" -> ".png"
    [] t = "API" -> "api"
    [] OTHER -> t

ToLowerCase(s) == [i \in 1..Len(s) |-> ToLowerCaseToken(s[i])]

\* ------------------------------------------------------------- store names
\* the store of the single-store worker (src/public/sw.js)
CACHE_NAME == <<"riders-", "luxury-v1.0.0">>
STATIC_CACHE == <<"riders-", "static-v1.0.0">>
DYNAMIC_CACHE == <<"riders-", "dynamic-v1.0.0">>
\* a store of the same origin that does not belong to the worker
FOREIGN_CACHE == <<"maps-", "tiles-v3">>
\* the n-th store left by an earlier generation: the single-store worker's,
\* then static stores of older versions
StaleCache(n) == IF n = 1 THEN CACHE_NAME ELSE <<"riders-", "static-v0.9", n>>

\* -------------------------------------------------------------------- URLs
UrlRoot == [protocol |-> <<"http", "s:">>, hostname |-> "riders.app", pathname |-> <<"/">>]
UrlApi == [protocol |-> <<"http", "s:">>, hostname |-> "riders.app",
           pathname |-> <<"/", "api", "/", "rides", "/", "search">>]
UrlPage == [protocol |-> <<"http", "s:">>, hostname |-> "riders.app",
            pathname |-> <<"/", "rides", "/", "mumbai-to-pune">>]
\* a script a browser extension loads into the page
UrlExtension == [protocol |-> <<"chrome-extension:">>, hostname |-> "kbfnbcaeplbcioakkpcpgfkobkghlhen",
                 pathname |-> <<"/", "inject", ".js">>]
Urls == <<UrlRoot, UrlApi, UrlPage, UrlExtension>>
UrlId == 1..Len(Urls)
RootKey == 1
ApiKey == 2
PageKey == 3
ExtensionKey == 4
\* the URLs a store of the origin can hold: the Cache API takes http(s) only
HttpKeys == {k \in UrlId : StartsWith(Urls[k].protocol, <<"http">>)}

\* the manifest of src/unnamed/part_000:9-27, restricted to the URLs above
STATIC_ASSETS == <<RootKey>>

\* the URLs of the whole manifest, on the worker's origin or on a CDN
ManifestUrls ==
  {[protocol |-> <<"http", "s:">>, hostname |-> "riders.app", pathname |-> p] :
     p \in { <<"/">>, <<"/", "index.html">>,
             <<"/", "css", "/", "style", ".css">>,
             <<"/", "js", "/", "app", ".js">>, <<"/", "js", "/", "auth", ".js">>,
             <<"/", "js", "/", "rides", ".js">>,
             <<"/", "js", "/", "bookings", ".js">>,
             <<"/", "js", "/", "ui", ".js">>, <<"/", "js", "/", "pwa", ".js">>,
             <<"/", "manifest.json">>,
             <<"/", "icons", "/", "icon-192x192", ".png">>,
             <<"/", "icons", "/", "icon-512x512", ".png">>,
             <<"/", "icons", "/", "apple-touch-icon", ".png">>,
             <<"/", "icons", "/", "favicon-32x32", ".png">>,
             <<"/", "icons", "/", "favicon-16x16", ".png">> }}
  \cup {[protocol |-> <<"http", "s:">>, hostname |-> "fonts.googleapis.com",
          pathname |-> <<"/", "css2">>],
         [protocol |-> <<"http", "s:">>, hostname |-> "cdnjs.cloudflare.com",
          pathname |-> <<"/", "ajax", "/", "libs", "/", "font-awesome", "/",
                         "6.4.0", "/", "css", "/", "all.min", ".css">>]}

API_CACHE_PATTERNS ==
  << <<"/", "api", "/", "rides", "/", "search">>,
     <<"/", "api", "/", "users", "/", "profile">>,
     <<"/", "api", "/", "auth", "/", "me">> >>

staticExtensions ==
  {<<".css">>, <<".js">>, <<".png">>, <<".jpg">>, <<".jpeg">>, <<".svg">>,
   <<".ico">>, <<".woff">>, <<".woff2">>}

isStaticAsset(url) ==
  LET pathname == ToLowerCase(url.pathname) IN
    \/ \E ext \in staticExtensions : EndsWith(pathname, ext)
    \/ pathname = <<"/">>
    \/ pathname = <<"/", "index.html">>
    \/ pathname = <<"/", "manifest.json">>
    \/ url.hostname = "fonts.googleapis.com"
    \/ url.hostname = "fonts.gstatic.com"
    \/ url.hostname = "cdnjs.cloudflare.com"

isAPICall(url) ==
  \/ StartsWith(url.pathname, <<"/", "api", "/">>)
  \/ \E i \in 1..Len(API_CACHE_PATTERNS) :
       Includes(url.pathname, API_CACHE_PATTERNS[i])

\* faulty variant: the API test comes first
StrategyApiFirst(url) ==
  IF isAPICall(url) THEN "networkFirst"
  ELSE IF isStaticAsset(url) THEN "cacheFirst"
  ELSE "staleWhileRevalidate"

\* the strategy handleFetch picks, in its order of tests
Strategy(url) ==
  IF isStaticAsset(url) THEN "cacheFirst"
  ELSE IF isAPICall(url) THEN "networkFirst"
  ELSE "staleWhileRevalidate"

\* ---------------------------------------------------------------- requests
Requests ==
  << [method |-> "GET", url |-> RootKey, mode |-> "navigate"],
     [method |-> "GET", url |-> ApiKey, mode |-> "cors"],
     [method |-> "GET", url |-> PageKey, mode |-> "navigate"],
     [method |-> "POST", url |-> ApiKey, mode |-> "cors"],
     [method |-> "GET", url |-> ExtensionKey, mode |-> "no-cors"] >>
ReqId == 1..Len(Requests)

\* --------------------------------------------------------------- responses
Bodies == 1..MaxBody
Resp(status, body) == [status |-> status, body |-> body]
\* the value of a lookup that found nothing, and of a promise resolved to nothing
Undefined == Resp(0, 0)
\* a fetch that rejected
NetworkError == Resp(-1, 0)
\* the response getOfflineFallback synthesizes
OfflineResponse == Resp(503, 0)
ResponseOk(r) == r.status >= 200 /\ r.status <= 299
\* what the network can answer to one fetch
NetOutcomes == {NetworkError, Resp(404, 1)} \cup {Resp(200, b) : b \in Bodies}

\* ------------------------------------------------------------ cache storage
\* caches: the stores in creation order; a store: its entries in insertion order
HasCache(cs, name) == \E i \in 1..Len(cs) : cs[i].name = name

CacheIndex(cs, name) == CHOOSE i \in 1..Len(cs) : cs[i].name = name

\* cache.match(request) on one store's entries
EntryMatch(entries, key) ==
  IF \E i \in 1..Len(entries) : entries[i].key = key
  THEN entries[CHOOSE i \in 1..Len(entries) : entries[i].key = key].resp
  ELSE Undefined

\* cache.match(request) on the store called name
CacheMatch(cs, name, key) ==
  IF HasCache(cs, name) THEN EntryMatch(cs[CacheIndex(cs, name)].entries, key)
  ELSE Undefined

\* caches.match(request): the first hit over all stores, in creation order
CachesMatch(cs, key) ==
  LET hits == {i \in 1..Len(cs) : EntryMatch(cs[i].entries, key) # Undefined} IN
    IF hits = {} THEN Undefined
    ELSE EntryMatch(cs[CHOOSE i \in hits : \A j \in hits : i <= j].entries, key)

\* caches.open(name): creates the store when there is none
CachesOpen(cs, name) ==
  IF HasCache(cs, name) THEN cs ELSE Append(cs, [name |-> name, entries |-> <<>>])

\* cache.put(request, response): drops the entry of the key, appends the new one
\* faulty variant: a put adds an entry and replaces none
EntryPutAppend(entries, key, resp) ==
  Append(entries, [key |-> key, resp |-> resp])

\* faulty variant: every put trims the store to its newest 50 entries
EntryPutEvicting(entries, key, resp) ==
  LET put == Append(SelectSeq(entries, LAMBDA e : e.key # key),
                    [key |-> key, resp |-> resp]) IN
    IF Len(put) > 50 THEN SubSeq(put, Len(put) - 49, Len(put)) ELSE put

EntryPut(entries, key, resp) ==
  Append(SelectSeq(entries, LAMBDA e : e.key # key), [key |-> key, resp |-> resp])

CachePut(cs, name, key, resp) ==
  [i \in 1..Len(cs) |->
     IF cs[i].name = name
     THEN [cs[i] EXCEPT !.entries = EntryPut(cs[i].entries, key, resp)]
     ELSE cs[i]]

\* caches.delete(name)
CachesDelete(cs, name) == SelectSeq(cs, LAMBDA c : c.name # name)

VARIABLES
  phase,        \* lifecycle of this generation of the worker
  caches,       \* the origin's cache storage
  toDelete,     \* activate: the deletions started and not yet finished
  skipWaitingCalled,
  fetchH,       \* the fetch-event handlers
  queue,        \* the durable offline queue, per task kind
  drains,       \* the sync-event handlers
  inflight,     \* submissions sent to the remote API and not yet answered
  storage,      \* whether the origin's cache storage can be opened
  cleanup,      \* the handler of a CLEANUP_CACHE message
  pushH,        \* the push-event handlers
  clickH,       \* the notificationclick handler
  windowClients, \* the URLs of the application's open windows
  classified,   \* the URL handed to handleFetch's classification, and its result
  messages,     \* the data of the message events the worker received
  host          \* the page's PWA module

\* the state of the handlers of message, push and notificationclick events,
\* of the storage and of the classification
hostVars == <<messages, host>>

eventVars == <<storage, cleanup, pushH, clickH, windowClients, classified,
               hostVars>>

vars == <<phase, caches, toDelete, skipWaitingCalled, fetchH,
          queue, drains, inflight, eventVars>>


\* ---------------------------------------------------------------- handlers
H == 1..MaxFetch

IdleHandler ==
  [pc |-> "idle", req |-> 0, cached |-> Undefined, resp |-> Undefined,
   delivered |-> FALSE, result |-> Undefined, threw |-> FALSE, net |-> 0,
   put |-> "none", putCache |-> <<>>]

Kinds == {"booking", "ride"}
D == 1..MaxDrains

\* tried: the ids submitted in this cycle; outcomes: for each settled
\* submission, whether it was answered 2xx
IdleDrain ==
  [pc |-> "idle", tag |-> "", kind |-> "none", loaded |-> <<>>, idx |-> 0,
   tried |-> <<>>, outcomes |-> <<>>]

\* ------------------------------------------------------------------- Init
\* what the origin's cache storage holds before this generation is installed:
\* stores of earlier generations and, possibly, one store of other code
StaleStores(n) ==
  [i \in 1..n |-> [name |-> StaleCache(i),
                   entries |-> <<[key |-> RootKey, resp |-> Resp(200, 1)]>>]]

ForeignStores ==
  {<<>>} \cup
  {<<[name |-> FOREIGN_CACHE,
      entries |-> <<[key |-> k, resp |-> Resp(200, 1)]>>]>> : k \in HttpKeys}

\* before: the store's entries when cache.keys() read them; puts, raced: a
\* put was applied to the store, and it was applied after that read
IdleCleanup ==
  [pc |-> "idle", before |-> <<>>, requests |-> <<>>, toDelete |-> {},
   puts |-> 0, raced |-> FALSE]

P == 1..MaxPush

\* event.data of a push event: absent, or a payload with its text
NoData == [present |-> FALSE, text |-> ""]

\* shown: the calls of showNotification; title, body: what it was given
IdlePush ==
  [pc |-> "idle", payload |-> NoData, threw |-> FALSE, shown |-> 0,
   title |-> "", body |-> "", tag |-> "", data |-> "", vibrate |-> "",
   actions |-> <<>>]

\* closed: notification.close() was called; url: the target; enumerated:
\* clients.matchAll was called; focused: the index of the client that was
\* focused; opened: the URL given to clients.openWindow
IdleClick ==
  [pc |-> "idle", action |-> "", data |-> [url |-> <<>>, type |-> ""],
   closed |-> FALSE, url |-> <<>>, enumerated |-> FALSE,
   focused |-> 0, opened |-> <<>>]

IdleClassified == [pc |-> "idle", url |-> UrlRoot, strategy |-> "none"]

\* the storage works ("ok"), or accepts no write ("full": cache.put and
\* cache.addAll reject), or cannot be opened ("unavailable": caches.open
\* rejects)
StorageStates == {"ok", "full", "unavailable"}

\* no message, push or click has been handled
InitHandlers ==
  /\ cleanup = IdleCleanup
  /\ pushH = [p \in P |-> IdlePush]
  /\ clickH = IdleClick
  /\ windowClients = <<>>
  /\ classified = IdleClassified

InitEvents ==
  /\ storage = "ok"
  /\ InitHandlers

\* the page's module before PWA.init: no registration, nothing registered
\* for sync, no update offered, no submission made
IdleHost ==
  [initDone |-> FALSE, swRegistration |-> FALSE, controller |-> FALSE,
   updateAvailable |-> FALSE, notified |-> FALSE, applied |-> FALSE,
   posted |-> 0, syncPc |-> "idle", syncIdx |-> 0,
   syncTags |-> {},
   succeeded |-> {}, failed |-> {}, reloads |-> 0,
   supported |-> TRUE, calls |-> <<>>, cachePosts |-> 0, updateChecks |-> 0,
   threw |-> FALSE]

InitHost ==
  /\ messages = <<>>
  /\ host = IdleHost

InitGeneration ==
  /\ phase = "parsed"
  /\ toDelete = {}
  /\ skipWaitingCalled = FALSE
  /\ fetchH = [h \in H |-> IdleHandler]
  /\ drains = [d \in D |-> IdleDrain]
  /\ inflight = {}

InitWorker ==
  /\ InitGeneration
  /\ InitHost

Init ==
  /\ InitWorker
  /\ InitEvents
  /\ \E n \in 0..MaxStale, f \in ForeignStores : caches = StaleStores(n) \o f
  /\ queue = [k \in Kinds |-> <<>>]

\* --------------------------------------------------------------- lifecycle
\* install: caches.open(STATIC_CACHE) is called and awaited
InstallEvent ==
  /\ phase = "parsed"
  /\ phase' = "install_open"
  /\ UNCHANGED <<eventVars, caches, toDelete, skipWaitingCalled, fetchH,
                 queue, drains, inflight>>

\* caches.open settled: cache.addAll(STATIC_ASSETS) fetches the manifest, or
\* the open was rejected and the catch only logs
InstallOpened ==
  /\ phase = "install_open"
  /\ IF storage = "unavailable"
     THEN caches' = caches /\ phase' = "installed"
     ELSE caches' = CachesOpen(caches, STATIC_CACHE) /\ phase' = "install_addAll"
  /\ UNCHANGED <<eventVars, toDelete, skipWaitingCalled, fetchH,
                 queue, drains, inflight>>

\* faulty variant: addAll resolves without having written the manifest
AddAllNothing(cs, ok, body) == cs

\* addAll writes every manifest entry, or none when one fetch fails
AddAll(cs, ok, body) ==
  IF ok
  THEN CachePut(cs, STATIC_CACHE, STATIC_ASSETS[1], Resp(200, body))
  ELSE cs

\* addAll settled: then skipWaiting(), or the catch that only logs
InstallAddAllSettled ==
  /\ phase = "install_addAll"
  /\ \E ok \in BOOLEAN, b \in Bodies :
       /\ ok => storage = "ok"
       /\ caches' = AddAll(caches, ok, b)
       /\ skipWaitingCalled' = ok
  /\ phase' = "installed"
  /\ UNCHANGED <<eventVars, toDelete, fetchH, queue, drains, inflight>>

\* faulty variant: every store but the two current ones is deleted
IsOldCacheAnyName(cacheName) ==
  cacheName # STATIC_CACHE /\ cacheName # DYNAMIC_CACHE

\* faulty variant: every store of the prefix is deleted
IsOldCacheAnyGeneration(cacheName) == StartsWith(cacheName, <<"riders-">>)

\* the names the activate handler deletes
IsOldCache(cacheName) ==
  /\ cacheName # STATIC_CACHE
  /\ cacheName # DYNAMIC_CACHE
  /\ StartsWith(cacheName, <<"riders-">>)

\* activate: caches.keys() is called and awaited. An installed generation is
\* activated when no older generation controls a page, or once skipWaiting
\* has been called
ActivateEvent ==
  /\ phase = "installed"
  /\ skipWaitingCalled \/ ~host.controller
  /\ phase' = "activate_keys"
  /\ UNCHANGED <<eventVars, caches, toDelete, skipWaitingCalled, fetchH,
                 queue, drains, inflight>>

\* the names are known: one caches.delete per old store is started
ActivateKeys ==
  /\ phase = "activate_keys"
  /\ toDelete' = {caches[i].name : i \in {j \in 1..Len(caches) : IsOldCache(caches[j].name)}}
  /\ phase' = "activate_delete"
  /\ UNCHANGED <<eventVars, caches, skipWaitingCalled, fetchH,
                 queue, drains, inflight>>

\* one of the started deletions finishes
ActivateDelete ==
  /\ phase = "activate_delete"
  /\ \E name \in toDelete :
       /\ caches' = CachesDelete(caches, name)
       /\ toDelete' = toDelete \ {name}
  /\ UNCHANGED <<eventVars, phase, skipWaitingCalled, fetchH,
                 queue, drains, inflight>>

\* faulty variant: the claim does not wait for the deletions
AllDeletedUnawaited(pending) == TRUE

\* Promise.all(deletePromises) has resolved: no started deletion is pending
AllDeleted(pending) == pending = {}

\* Promise.all resolved: clients.claim()
ActivateClaim ==
  /\ phase = "activate_delete"
  /\ AllDeleted(toDelete)
  /\ phase' = "activated"
  /\ UNCHANGED <<eventVars, caches, toDelete, skipWaitingCalled, fetchH,
                 queue, drains, inflight>>

Lifecycle ==
  \/ InstallEvent
  \/ InstallOpened
  \/ InstallAddAllSettled
  \/ ActivateEvent
  \/ ActivateKeys
  \/ ActivateDelete
  \/ ActivateClaim


\* ------------------------------------------------------------ fetch events
KeyOf(h) == Requests[fetchH[h].req].url
UrlOf(h) == Urls[KeyOf(h)]
StrategyOf(h) == Strategy(UrlOf(h))

\* faulty variant: the scheme is not tested
InterceptedAnyScheme(req) == req.method = "GET"

\* the fetch listener's two early returns
Intercepted(req) ==
  /\ req.method = "GET"
  /\ StartsWith(Urls[req.url].protocol, <<"http">>)

\* faulty variant: the lookup's result is ignored
cacheFirstHitNever(cached) == FALSE

\* `if (cached) return cached;` of cacheFirst
cacheFirstHit(cached) == cached # Undefined

\* `if (cached) return cached;` of networkFirst's catch
networkFirstHit(cached) == cached # Undefined

\* faulty variant: the fetch is awaited before anything is returned
swrAwaitsFetch(cached) == FALSE

\* `if (cached) return cached;` of staleWhileRevalidate, before the await
swrReturnsCached(cached) == cached # Undefined

\* faulty variant: every response is stored
ShouldStoreAny(response) == TRUE

\* faulty variant: every response below 500 is stored
ShouldStoreBelow500(response) == response.status < 500

\* `if (response.ok)` in front of every cache.put
ShouldStore(response) == ResponseOk(response)

\* the store each strategy opens for its put
cacheFirstStore == STATIC_CACHE
\* faulty variant: the response is written to the static store
networkFirstStoreStatic == STATIC_CACHE
networkFirstStore == DYNAMIC_CACHE
\* faulty variant: the refreshed response is written to the static store
swrStoreStatic == STATIC_CACHE
swrStore == DYNAMIC_CACHE

\* the lookup of networkFirst's catch: caches.match(request)
networkFirstLookup(cs, key) == CachesMatch(cs, key)

\* the lookup of cacheFirst: caches.match(request)
cacheFirstLookup(cs, key) == CachesMatch(cs, key)

\* the handler hands `r` to respondWith's promise
Deliver(rec, r) == [rec EXCEPT !.delivered = TRUE, !.result = r]

\* handleFetch's catch: getOfflineFallback(request)
getOfflineFallback(rec) ==
  IF Requests[rec.req].mode = "navigate"
  THEN [rec EXCEPT !.threw = TRUE, !.pc = "fb_match"]
  ELSE [Deliver(rec, OfflineResponse) EXCEPT !.threw = TRUE, !.pc = "done"]

\* the listener runs; handleFetch runs up to its strategy's first await
FetchEvent(h, r) ==
  /\ phase = "activated"
  /\ fetchH[h].pc = "idle"
  /\ \A g \in H : g < h => fetchH[g].pc # "idle"
  /\ LET req == Requests[r]
         rec == [fetchH[h] EXCEPT !.req = r]
         strategy == Strategy(Urls[req.url]) IN
       fetchH' = [fetchH EXCEPT ![h] =
         IF ~Intercepted(req) THEN [rec EXCEPT !.pc = "bypass"]
         ELSE IF strategy = "cacheFirst" THEN [rec EXCEPT !.pc = "cf_match"]
         ELSE IF strategy = "networkFirst"
           THEN [rec EXCEPT !.pc = "nf_fetch", !.net = @ + 1]
         ELSE [rec EXCEPT !.pc = "swr_open"]]
  /\ UNCHANGED <<eventVars, phase, caches, toDelete, skipWaitingCalled,
                 queue, drains, inflight>>

\* cacheFirst: caches.match settled
CfMatched(h) ==
  /\ fetchH[h].pc = "cf_match"
  /\ LET cached == cacheFirstLookup(caches, KeyOf(h))
         rec == [fetchH[h] EXCEPT !.cached = cached] IN
       fetchH' = [fetchH EXCEPT ![h] =
         IF cacheFirstHit(cached)
         THEN [Deliver(rec, cached) EXCEPT !.pc = "done"]
         ELSE [rec EXCEPT !.pc = "cf_fetch", !.net = @ + 1]]
  /\ UNCHANGED <<eventVars, phase, caches, toDelete, skipWaitingCalled,
                 queue, drains, inflight>>

\* cacheFirst: fetch settled
CfFetched(h, out) ==
  /\ fetchH[h].pc = "cf_fetch"
  /\ LET rec == [fetchH[h] EXCEPT !.resp = out] IN
       fetchH' = [fetchH EXCEPT ![h] =
         IF out = NetworkError THEN getOfflineFallback(rec)
         ELSE IF ShouldStore(out) THEN [rec EXCEPT !.pc = "cf_open"]
         ELSE [Deliver(rec, out) EXCEPT !.pc = "done"]]
  /\ UNCHANGED <<eventVars, phase, caches, toDelete, skipWaitingCalled,
                 queue, drains, inflight>>

\* cacheFirst: caches.open settled; cache.put is started and not awaited. A
\* rejected open is rethrown by cacheFirst's catch to handleFetch's
CfOpened(h) ==
  /\ fetchH[h].pc = "cf_open"
  /\ IF storage = "unavailable"
     THEN /\ caches' = caches
          /\ fetchH' = [fetchH EXCEPT ![h] = getOfflineFallback(@)]
     ELSE /\ caches' = CachesOpen(caches, cacheFirstStore)
          /\ fetchH' = [fetchH EXCEPT ![h] =
               [Deliver(@, @.resp) EXCEPT !.pc = "done", !.put = "pending",
                                          !.putCache = cacheFirstStore]]
  /\ UNCHANGED <<eventVars, phase, toDelete, skipWaitingCalled,
                 queue, drains, inflight>>

\* networkFirst: fetch settled
NfFetched(h, out) ==
  /\ fetchH[h].pc = "nf_fetch"
  /\ LET rec == [fetchH[h] EXCEPT !.resp = out] IN
       fetchH' = [fetchH EXCEPT ![h] =
         IF out = NetworkError THEN [rec EXCEPT !.pc = "nf_match"]
         ELSE IF ShouldStore(out) THEN [rec EXCEPT !.pc = "nf_open"]
         ELSE [Deliver(rec, out) EXCEPT !.pc = "done"]]
  /\ UNCHANGED <<eventVars, phase, caches, toDelete, skipWaitingCalled,
                 queue, drains, inflight>>

\* networkFirst: caches.open settled; cache.put is started and not awaited. A
\* rejected open lands in networkFirst's catch, which looks the request up
NfOpened(h) ==
  /\ fetchH[h].pc = "nf_open"
  /\ IF storage = "unavailable"
     THEN /\ caches' = caches
          /\ fetchH' = [fetchH EXCEPT ![h].pc = "nf_match"]
     ELSE /\ caches' = CachesOpen(caches, networkFirstStore)
          /\ fetchH' = [fetchH EXCEPT ![h] =
               [Deliver(@, @.resp) EXCEPT !.pc = "done", !.put = "pending",
                                          !.putCache = networkFirstStore]]
  /\ UNCHANGED <<eventVars, phase, toDelete, skipWaitingCalled,
                 queue, drains, inflight>>

\* networkFirst: the catch's caches.match settled
NfMatched(h) ==
  /\ fetchH[h].pc = "nf_match"
  /\ LET cached == networkFirstLookup(caches, KeyOf(h))
         rec == [fetchH[h] EXCEPT !.cached = cached] IN
       fetchH' = [fetchH EXCEPT ![h] =
         IF networkFirstHit(cached)
         THEN [Deliver(rec, cached) EXCEPT !.pc = "done"]
         ELSE getOfflineFallback(rec)]
  /\ UNCHANGED <<eventVars, phase, caches, toDelete, skipWaitingCalled,
                 queue, drains, inflight>>

\* staleWhileRevalidate: caches.open settled; a rejected open leaves the
\* function before any fetch, for handleFetch's catch
SwrOpened(h) ==
  /\ fetchH[h].pc = "swr_open"
  /\ IF storage = "unavailable"
     THEN /\ caches' = caches
          /\ fetchH' = [fetchH EXCEPT ![h] = getOfflineFallback(@)]
     ELSE /\ caches' = CachesOpen(caches, swrStore)
          /\ fetchH' = [fetchH EXCEPT ![h].pc = "swr_match"]
  /\ UNCHANGED <<eventVars, phase, toDelete, skipWaitingCalled,
                 queue, drains, inflight>>

\* staleWhileRevalidate: cache.match settled; the fetch is started, and the
\* cached response, when there is one, is returned without awaiting it
SwrMatched(h) ==
  /\ fetchH[h].pc = "swr_match"
  /\ LET cached == CacheMatch(caches, swrStore, KeyOf(h))
         rec == [fetchH[h] EXCEPT !.cached = cached, !.net = @ + 1,
                                  !.pc = "swr_fetch"] IN
       fetchH' = [fetchH EXCEPT ![h] =
         IF swrReturnsCached(cached) THEN Deliver(rec, cached) ELSE rec]
  /\ UNCHANGED <<eventVars, phase, caches, toDelete, skipWaitingCalled,
                 queue, drains, inflight>>

\* what fetchPromise resolves to: the response, or nothing after the catch
SwrPromiseValue(out) == IF out = NetworkError THEN Undefined ELSE out

\* staleWhileRevalidate: the fetch settled; cache.put is started on a 2xx
SwrFetched(h, out) ==
  /\ fetchH[h].pc = "swr_fetch"
  /\ LET rec == [fetchH[h] EXCEPT
                   !.resp = out, !.pc = "done",
                   !.put = IF out # NetworkError /\ ShouldStore(out)
                           THEN "pending" ELSE @,
                   !.putCache = IF out # NetworkError /\ ShouldStore(out)
                                THEN swrStore ELSE @] IN
       fetchH' = [fetchH EXCEPT ![h] =
         IF rec.delivered THEN rec ELSE Deliver(rec, SwrPromiseValue(out))]
  /\ UNCHANGED <<eventVars, phase, caches, toDelete, skipWaitingCalled,
                 queue, drains, inflight>>

\* getOfflineFallback: caches.match('/') settled
FbMatched(h) ==
  /\ fetchH[h].pc = "fb_match"
  /\ LET cached == CachesMatch(caches, RootKey) IN
       fetchH' = [fetchH EXCEPT ![h] =
         [Deliver(@, IF cached # Undefined THEN cached ELSE OfflineResponse)
            EXCEPT !.pc = "done"]]
  /\ UNCHANGED <<eventVars, phase, caches, toDelete, skipWaitingCalled,
                 queue, drains, inflight>>

\* a cache.put started by a handler is applied to its store, or rejected:
\* nothing awaits or catches it
PutSettled(h) ==
  /\ fetchH[h].put = "pending"
  /\ IF storage = "ok"
     THEN /\ caches' = CachePut(caches, fetchH[h].putCache, KeyOf(h),
                                fetchH[h].resp)
          /\ fetchH' = [fetchH EXCEPT ![h].put = "applied"]
     ELSE /\ caches' = caches
          /\ fetchH' = [fetchH EXCEPT ![h].put = "rejected"]
  /\ UNCHANGED <<eventVars, phase, toDelete, skipWaitingCalled,
                 queue, drains, inflight>>

Fetching ==
  \E h \in H :
    \/ \E r \in ReqId : FetchEvent(h, r)
    \/ CfMatched(h)
    \/ \E out \in NetOutcomes : CfFetched(h, out)
    \/ CfOpened(h)
    \/ \E out \in NetOutcomes : NfFetched(h, out)
    \/ NfOpened(h)
    \/ NfMatched(h)
    \/ SwrOpened(h)
    \/ SwrMatched(h)
    \/ \E out \in NetOutcomes : SwrFetched(h, out)
    \/ FbMatched(h)
    \/ PutSettled(h)

Next == Lifecycle \/ Fetching

\* the worker over a storage that may fail
InitStorage ==
  /\ InitWorker
  /\ InitHandlers
  /\ storage \in StorageStates
  /\ \E n \in 0..MaxStale, f \in ForeignStores : caches = StaleStores(n) \o f
  /\ queue = [k \in Kinds |-> <<>>]

SpecStorage == InitStorage /\ [][Next]_vars

\* a caches.delete rejects: Promise.all rejects, the chain has no catch, and
\* the .then that calls clients.claim() is skipped
ActivateDeleteRejected ==
  /\ phase = "activate_delete"
  /\ storage = "unavailable"
  /\ toDelete # {}
  /\ phase' = "activate_failed"
  /\ UNCHANGED <<eventVars, caches, toDelete, skipWaitingCalled, fetchH,
                 queue, drains, inflight>>

\* the worker over a storage that may fail, deletions included
NextActivation == Next \/ ActivateDeleteRejected

SpecActivation == InitStorage /\ [][NextActivation]_vars

Spec == Init /\ [][Next]_vars


\* ------------------------------------------------------------- sync events
\* a queued task; token and data are what the submission carries
Task(i) == [id |-> i, token |-> "token", data |-> i, attemptCount |-> 0]

\* the tags a sync event can carry: the two the listener tests, and another
BOOKINGS_TAG == "background-sync-bookings"
RIDES_TAG == "background-sync-rides"
SyncTags == {BOOKINGS_TAG, RIDES_TAG, "background-sync"}

\* faulty variant: one tag for everything, as in the single-store worker
KindOfTagSingle(tag) == IF tag = "background-sync" THEN "booking" ELSE "none"

\* the drain the listener starts for a tag
KindOfTag(tag) ==
  IF tag = BOOKINGS_TAG THEN "booking"
  ELSE IF tag = RIDES_TAG THEN "ride"
  ELSE "none"

Endpoint(kind) ==
  IF kind = "booking" THEN <<"/", "api", "/", "bookings">>
  ELSE <<"/", "api", "/", "rides">>

\* the storage helpers as they are in the source: nothing is read or removed
getOfflineBookings == <<>>
getOfflineRides == <<>>
removeOfflineBooking(q, id) == q
removeOfflineRide(q, id) == q

getOfflineTasks(kind) ==
  IF kind = "booking" THEN getOfflineBookings ELSE getOfflineRides

removeOfflineTask(kind, q, id) ==
  IF kind = "booking" THEN removeOfflineBooking(q, id) ELSE removeOfflineRide(q, id)

\* the storage helpers as the queue's contract describes them: they read
\* the durable queue, and remove the task with the given id from it
StoredTasks(q) == q
StoredRemove(q, id) == SelectSeq(q, LAMBDA t : t.id # id)

\* what the remote API can answer to one submission
SubmitOutcomes == {NetworkError, Resp(201, 0), Resp(500, 0)}

\* the remote API accepted the submission
Answered2xx(out) == out # NetworkError /\ out.status >= 200 /\ out.status <= 299

\* faulty variant: any response counts as a success
SubmissionAnswered(out) == out # NetworkError

\* `if (response.ok)` of the loop body
SubmissionOk(out) == out # NetworkError /\ ResponseOk(out)

\* the loop reaches its next task: its fetch is started, or the loop is over
LoopNext(rec) ==
  IF rec.idx + 1 > Len(rec.loaded)
  THEN [rec EXCEPT !.pc = "done"]
  ELSE [rec EXCEPT !.pc = "submit", !.idx = @ + 1,
                   !.tried = Append(@, rec.loaded[rec.idx + 1].id)]

\* the submission the drain has in flight after a step, if any
Submitting(d, rec) ==
  IF rec.pc = "submit"
  THEN {[drain |-> d, endpoint |-> Endpoint(rec.kind), task |-> rec.loaded[rec.idx]]}
  ELSE {}

\* faulty variant: the error leaves the loop, as with the outer catch alone
OnSubmitErrorAbort(rec) == [rec EXCEPT !.pc = "done"]

\* the loop body's catch: the error is logged and the loop goes on
OnSubmitError(rec) == LoopNext(rec)

\* a response that is not ok: nothing is done and the loop goes on
OnSubmitRejected(rec) == LoopNext(rec)

\* faulty variant: the removal is not awaited
OnSubmitOkNoAwait(rec) == LoopNext(rec)

\* a 2xx response: removeOfflineBooking(id) is called and awaited
OnSubmitOk(rec) == [rec EXCEPT !.pc = "remove"]

\* the listener runs: syncBookings or syncRides is started for its tag and
\* runs up to its await of the load; any other tag starts nothing
SyncEvent(d, tag) ==
  /\ phase = "activated"
  /\ drains[d].pc = "idle"
  /\ \A e \in D : e < d => drains[e].pc # "idle"
  /\ drains' = [drains EXCEPT ![d] =
       IF KindOfTag(tag) = "none"
       THEN [@ EXCEPT !.pc = "ignored", !.tag = tag]
       ELSE [@ EXCEPT !.pc = "load", !.tag = tag, !.kind = KindOfTag(tag)]]
  /\ UNCHANGED <<eventVars, phase, caches, toDelete, skipWaitingCalled, fetchH,
                 queue, inflight>>

\* the load settled with `tasks`; the loop starts
Loaded(d, tasks) ==
  /\ drains[d].pc = "load"
  /\ LET rec == LoopNext([drains[d] EXCEPT !.loaded = tasks]) IN
       /\ drains' = [drains EXCEPT ![d] = rec]
       /\ inflight' = inflight \cup Submitting(d, rec)
  /\ UNCHANGED <<eventVars, phase, caches, toDelete, skipWaitingCalled, fetchH, queue>>

\* the load of the source
SyncLoaded(d) == Loaded(d, getOfflineTasks(drains[d].kind))

\* the load of a queue that is stored
SyncLoadedStored(d) == Loaded(d, StoredTasks(queue[drains[d].kind]))

\* the submission of the current task settled
SyncSubmitSettled(d, out) ==
  /\ drains[d].pc = "submit"
  /\ \E s \in inflight :
       /\ s.drain = d
       /\ LET settled == [drains[d] EXCEPT !.outcomes = Append(@, Answered2xx(out))]
              rec == IF out = NetworkError THEN OnSubmitError(settled)
                     ELSE IF SubmissionOk(out) THEN OnSubmitOk(settled)
                     ELSE OnSubmitRejected(settled) IN
            /\ drains' = [drains EXCEPT ![d] = rec]
            /\ inflight' = (inflight \ {s}) \cup Submitting(d, rec)
  /\ UNCHANGED <<eventVars, phase, caches, toDelete, skipWaitingCalled, fetchH, queue>>

\* the removal settled with the queue `q`; the loop goes on
Removed(d, q) ==
  /\ drains[d].pc = "remove"
  /\ queue' = [queue EXCEPT ![drains[d].kind] = q]
  /\ LET rec == LoopNext(drains[d]) IN
       /\ drains' = [drains EXCEPT ![d] = rec]
       /\ inflight' = inflight \cup Submitting(d, rec)
  /\ UNCHANGED <<eventVars, phase, caches, toDelete, skipWaitingCalled, fetchH>>

\* the removal of the source: the queue is as it was. No drain of the
\* source reaches it, since the load of the source returns no task
SyncRemoved(d) ==
  Removed(d, removeOfflineTask(drains[d].kind, queue[drains[d].kind],
                               drains[d].loaded[drains[d].idx].id))

\* the removal of a queue that is stored
SyncRemovedStored(d) ==
  Removed(d, StoredRemove(queue[drains[d].kind],
                          drains[d].loaded[drains[d].idx].id))

\* the worker as it is in the source: the drains load nothing
Syncing ==
  \E d \in D :
    \/ \E tag \in SyncTags : SyncEvent(d, tag)
    \/ SyncLoaded(d)

\* the worker with a stored queue
SyncingStored ==
  \E d \in D :
    \/ \E tag \in SyncTags : SyncEvent(d, tag)
    \/ SyncLoadedStored(d)
    \/ \E out \in SubmitOutcomes : SyncSubmitSettled(d, out)
    \/ SyncRemovedStored(d)

\* the durable queue holds up to MaxTasks tasks, of either kind
InitQueued ==
  /\ InitWorker
  /\ InitEvents
  /\ \E n \in 0..MaxStale : caches = StaleStores(n)
  /\ \E nb \in 0..MaxTasks, nr \in 0..MaxTasks :
       /\ nb + nr <= MaxTasks
       /\ queue = [k \in Kinds |->
                    [i \in 1..(IF k = "booking" THEN nb ELSE nr) |-> Task(i)]]

NextSync == Lifecycle \/ Syncing

SpecSync == InitQueued /\ [][NextSync]_vars

NextQueue == Lifecycle \/ SyncingStored

SpecQueue == InitQueued /\ [][NextQueue]_vars

\* faulty variant: without the outer catch the drain's promise rejects
OnLoadErrorRethrow(rec) == [rec EXCEPT !.pc = "rejected"]

\* the outer catch: an error outside the loop body is logged and the drain
\* resolves
OnLoadError(rec) == [rec EXCEPT !.pc = "done"]

\* the loop body's catch, for a removal that rejects: logged, the loop goes on
OnRemoveError(rec) == LoopNext(rec)

\* the load of the queue rejects
SyncLoadFailed(d) ==
  /\ drains[d].pc = "load"
  /\ drains' = [drains EXCEPT ![d] = OnLoadError(@)]
  /\ UNCHANGED <<eventVars, phase, caches, toDelete, skipWaitingCalled, fetchH,
                 queue, inflight>>

\* the removal of the submitted task rejects: the task stays queued
SyncRemoveFailed(d) ==
  /\ drains[d].pc = "remove"
  /\ LET rec == OnRemoveError(drains[d]) IN
       /\ drains' = [drains EXCEPT ![d] = rec]
       /\ inflight' = inflight \cup Submitting(d, rec)
  /\ UNCHANGED <<eventVars, phase, caches, toDelete, skipWaitingCalled, fetchH,
                 queue>>

\* the worker with a stored queue whose reads and removals may reject; the
\* queue holds MaxTasks tasks, of one kind or of both
SyncingFailing ==
  \/ SyncingStored
  \/ \E d \in D : SyncLoadFailed(d)
  \/ \E d \in D : SyncRemoveFailed(d)

InitDrain ==
  /\ InitWorker
  /\ InitEvents
  /\ caches = StaleStores(1)
  /\ \E nb \in {1, MaxTasks} :
       LET nr == MaxTasks - nb IN
         queue = [k \in Kinds |->
                    [i \in 1..(IF k = "booking" THEN nb ELSE nr) |-> Task(i)]]

NextDrain == Lifecycle \/ SyncingFailing

SpecDrain == InitDrain /\ [][NextDrain]_vars


\* ---------------------------------------------------------- classification
\* the segments the classified paths are made of
Segments ==
  { <<"/", "api">>, <<"/", "API">>, <<"/", "auth">>, <<"/", "me">>,
    <<"/", "v2">>, <<"/", "app", ".js">>, <<"/", "logo", ".PNG">>,
    <<"/", "index.html">>, <<"/">> }

RECURSIVE PathsOf(_)
PathsOf(n) ==
  IF n = 1 THEN Segments
  ELSE PathsOf(n - 1) \cup {p \o seg : p \in PathsOf(n - 1), seg \in Segments}

Hostnames == {"riders.app", "cdnjs.cloudflare.com", "api.example.com"}

\* the URLs a request can carry
ClassifyUrls ==
  [protocol : {<<"http", "s:">>}, hostname : Hostnames,
   pathname : PathsOf(MaxSegments)]

\* handleFetch reaches the call of the strategy it chose for the URL
Classify ==
  /\ classified.pc = "ready"
  /\ classified' = [classified EXCEPT
                      !.pc = "done",
                      !.strategy = Strategy(classified.url)]
  /\ UNCHANGED <<phase, caches, toDelete, skipWaitingCalled, fetchH, queue,
                 drains, inflight, hostVars, storage, cleanup, pushH, clickH,
                 windowClients>>

\* a request for any of the URLs is about to be classified
InitClassify ==
  /\ InitWorker
  /\ storage = "ok"
  /\ cleanup = IdleCleanup
  /\ pushH = [p \in P |-> IdlePush]
  /\ clickH = IdleClick
  /\ windowClients = <<>>
  /\ \E u \in ClassifyUrls :
       classified = [pc |-> "ready", url |-> u, strategy |-> "none"]
  /\ caches = <<>>
  /\ queue = [k \in Kinds |-> <<>>]

NextClassify == Classify

SpecClassify == InitClassify /\ [][NextClassify]_vars

\* ------------------------------------------------------------ push events
\* the payload texts a push can carry
PushTexts ==
  {"null", "42", "\"hi\"", "[]", "{}",
   "{\"title\":\"Trip\"}", "{\"title\":\"\",\"body\":\"Seat booked\"}",
   "{\"title\":\"Trip\",\"body\":\"Seat booked\"}",
   "{\"tag\":\"ride-7\",\"data\":{\"url\":\"/rides/7\"},\"vibrate\":[100]}",
   "{\"title\":null,\"tag\":\"\",\"data\":null,\"vibrate\":0}",
   "Seat booked", "{\"title\":"}

PushPayloads == {NoData} \cup [present : {TRUE}, text : PushTexts]

\* a property that an object does not have, and a failed parse
Missing == "<undefined>"
Thrown == [kind |-> "thrown"]

Obj(title, body) ==
  [kind |-> "object", title |-> title, body |-> body, tag |-> Missing,
   data |-> Missing, vibrate |-> Missing]

\* event.data.json(): the value of the text, or a SyntaxError
JsonParse(text) ==
  CASE text = "null" -> [kind |-> "null"]
    [] text = "42" -> [kind |-> "number"]
    [] text = "\"hi\"" -> [kind |-> "string"]
    [] text = "[]" -> [kind |-> "array"]
    [] text = "{}" -> Obj(Missing, Missing)
    [] text = "{\"title\":\"Trip\"}" -> Obj("Trip", Missing)
    [] text = "{\"title\":\"\",\"body\":\"Seat booked\"}" -> Obj("", "Seat booked")
    [] text = "{\"title\":\"Trip\",\"body\":\"Seat booked\"}" -> Obj("Trip", "Seat booked")
    [] text = "{\"tag\":\"ride-7\",\"data\":{\"url\":\"/rides/7\"},\"vibrate\":[100]}"
         -> [Obj(Missing, Missing) EXCEPT !.tag = "ride-7",
                                          !.data = "{\"url\":\"/rides/7\"}",
                                          !.vibrate = "[100]"]
    [] text = "{\"title\":null,\"tag\":\"\",\"data\":null,\"vibrate\":0}"
         -> [Obj("null", Missing) EXCEPT !.tag = "", !.data = "null",
                                         !.vibrate = "0"]
    [] OTHER -> Thrown

\* `data` after the listener's parsing: {} without payload, the parsed
\* value, or title and raw text when the parse threw
PushData(payload) ==
  IF ~payload.present THEN Obj(Missing, Missing)
  ELSE IF JsonParse(payload.text) = Thrown
       THEN Obj("Riders Luxury", payload.text)
       ELSE JsonParse(payload.text)

\* reading a property of `data` throws a TypeError when data is null
ReadThrows(data) == data.kind \in {"null", "thrown"}

\* data.title and data.body: undefined on a value that has no such property
Property(data, name) ==
  IF data.kind = "object" THEN data[name] ELSE Missing

\* the values that `||` passes over: undefined, '', null and 0
Falsy == {Missing, "", "null", "0"}

\* `value || fallback`
OrElse(value, fallback) ==
  IF value \in Falsy THEN fallback ELSE value

\* the actions of every notification
NotificationActions == <<"view", "dismiss">>

\* the push listener runs: it parses, builds the options and calls
\* showNotification, unless building the options threw
PushEvent(p, payload) ==
  /\ phase = "activated"
  /\ pushH[p].pc = "idle"
  /\ \A q \in P : q < p => pushH[q].pc # "idle"
  /\ LET data == PushData(payload) IN
       pushH' = [pushH EXCEPT ![p] =
         IF ReadThrows(data)
         THEN [@ EXCEPT !.pc = "threw", !.payload = payload, !.threw = TRUE]
         ELSE [@ EXCEPT !.pc = "showing", !.payload = payload,
                        !.shown = @ + 1,
                        !.title = OrElse(Property(data, "title"), "Riders Luxury"),
                        !.body = OrElse(Property(data, "body"),
                                        "You have a new update"),
                        !.tag = OrElse(Property(data, "tag"), "general"),
                        !.data = OrElse(Property(data, "data"), "{}"),
                        !.vibrate = OrElse(Property(data, "vibrate"),
                                           "[200,100,200]"),
                        !.actions = NotificationActions]]
  /\ UNCHANGED <<phase, caches, toDelete, skipWaitingCalled, fetchH, queue,
                 drains, inflight, hostVars, storage, cleanup, clickH, windowClients,
                 classified>>

\* showNotification settled: the notification is displayed
PushShown(p) ==
  /\ pushH[p].pc = "showing"
  /\ pushH' = [pushH EXCEPT ![p].pc = "displayed"]
  /\ UNCHANGED <<phase, caches, toDelete, skipWaitingCalled, fetchH, queue,
                 drains, inflight, hostVars, storage, cleanup, clickH, windowClients,
                 classified>>

Pushing ==
  \E p \in P :
    \/ \E payload \in PushPayloads : PushEvent(p, payload)
    \/ PushShown(p)

NextPush == Lifecycle \/ Pushing

SpecPush == Init /\ [][NextPush]_vars

\* ------------------------------------------------------ notification clicks
\* the action of a click: a button of the notification, or '' for its body
ClickActions == {"view", "dismiss", ""}

\* notification.data: url and type, each possibly absent
ClickData ==
  [url : {<<>>, <<"/", "rides", "/", "mumbai-to-pune">>},
   type : {"", "booking", "ride", "promo"}]

Origin == <<"https://riders.app">>

\* the locations an open window can show
ClientUrls ==
  { Origin \o <<"/">>,
    Origin \o <<"/", "?", "bookings=true">>,
    Origin \o <<"/", "rides", "/", "mumbai-to-pune">>,
    Origin \o <<"/", "profile">> }

WindowLists ==
  UNION {[1..n -> ClientUrls] : n \in 0..MaxWindows}

\* url.split('?')[0]
RECURSIVE BeforeQuery(_)
BeforeQuery(url) ==
  IF url = <<>> \/ Head(url) = "?" THEN <<>>
  ELSE <<Head(url)>> \o BeforeQuery(Tail(url))

\* faulty variant: no action is taken for a dismissal
IsDismissNever(action) == FALSE

\* `if (action === 'dismiss') return;`
IsDismiss(action) == action = "dismiss"

\* the target the listener computes from the action and the data
ClickTarget(action, data) ==
  IF action = "view" /\ data.url # <<>> THEN data.url
  ELSE IF data.type = "booking" THEN <<"/", "?", "bookings=true">>
  ELSE IF data.type = "ride" THEN <<"/", "?", "search=true">>
  ELSE <<"/">>

\* `client.url.includes(url.split('?')[0])`
ClientMatches(clientUrl, url) == Includes(clientUrl, BeforeQuery(url))

\* the first client of the list that matches, 0 when none does
FirstMatch(clientList, url) ==
  IF \E i \in 1..Len(clientList) : ClientMatches(clientList[i], url)
  THEN CHOOSE i \in 1..Len(clientList) :
         /\ ClientMatches(clientList[i], url)
         /\ \A j \in 1..(i - 1) : ~ClientMatches(clientList[j], url)
  ELSE 0

\* the notificationclick listener runs: the notification is closed; a
\* dismissal ends there, any other action computes the target and calls
\* clients.matchAll
NotificationClick(action, data) ==
  /\ phase = "activated"
  /\ clickH.pc = "idle"
  /\ clickH' =
       IF IsDismiss(action)
       THEN [clickH EXCEPT !.pc = "done", !.action = action, !.data = data,
                           !.closed = TRUE]
       ELSE [clickH EXCEPT !.pc = "matchAll", !.action = action, !.data = data,
                           !.closed = TRUE, !.enumerated = TRUE,
                           !.url = ClickTarget(action, data)]
  /\ UNCHANGED <<phase, caches, toDelete, skipWaitingCalled, fetchH, queue,
                 drains, inflight, hostVars, storage, cleanup, pushH, windowClients,
                 classified>>

\* matchAll settled: the first matching client is focused, or a window is
\* opened at the target
ClickMatched ==
  /\ clickH.pc = "matchAll"
  /\ LET i == FirstMatch(windowClients, clickH.url) IN
       IF i # 0
       THEN /\ clickH' = [clickH EXCEPT !.pc = "done", !.focused = i]
            /\ windowClients' = windowClients
       ELSE /\ clickH' = [clickH EXCEPT !.pc = "done", !.opened = clickH.url]
            /\ windowClients' = Append(windowClients, Origin \o clickH.url)
  /\ UNCHANGED <<phase, caches, toDelete, skipWaitingCalled, fetchH, queue,
                 drains, inflight, hostVars, storage, cleanup, pushH, classified>>

Clicking ==
  \/ \E action \in ClickActions, data \in ClickData :
       NotificationClick(action, data)
  \/ ClickMatched

\* the worker starts while up to MaxWindows windows of the application are open
InitWindows ==
  /\ InitWorker
  /\ storage = "ok"
  /\ cleanup = IdleCleanup
  /\ pushH = [p \in P |-> IdlePush]
  /\ clickH = IdleClick
  /\ classified = IdleClassified
  /\ windowClients \in WindowLists
  /\ \E n \in 0..MaxStale : caches = StaleStores(n)
  /\ queue = [k \in Kinds |-> <<>>]

NextClick == Lifecycle \/ Clicking

SpecClick == InitWindows /\ [][NextClick]_vars

\* ---------------------------------------------------------- cache cleanup
\* the number of entries cleanupOldCache keeps
CleanupKeep == 50

\* the entries of a store; none when the store does not exist
EntriesOf(cs, name) ==
  IF HasCache(cs, name) THEN cs[CacheIndex(cs, name)].entries ELSE <<>>

\* cache.keys(): the request keys, in insertion order
CacheKeys(entries) == [i \in 1..Len(entries) |-> entries[i].key]

\* cache.delete(request)
CacheDelete(cs, name, key) ==
  [i \in 1..Len(cs) |->
     IF cs[i].name = name
     THEN [cs[i] EXCEPT !.entries = SelectSeq(@, LAMBDA e : e.key # key)]
     ELSE cs[i]]

\* faulty variant: the newest entries are the ones deleted
cleanupToDeleteNewest(requests) ==
  IF Len(requests) > CleanupKeep
  THEN SubSeq(requests, CleanupKeep + 1, Len(requests))
  ELSE <<>>

\* `requests.slice(0, requests.length - 50)` under `requests.length > 50`
cleanupToDelete(requests) ==
  IF Len(requests) > CleanupKeep
  THEN SubSeq(requests, 1, Len(requests) - CleanupKeep)
  ELSE <<>>

\* the dynamic store as an earlier run of the worker left it: n entries
SeededEntries(n) == [i \in 1..n |-> [key |-> i, resp |-> Resp(200, 1)]]

SeededStore(n) == <<[name |-> DYNAMIC_CACHE, entries |-> SeededEntries(n)]>>

\* ------------------------------------------------------------- messages
\* the types of the messages a page posts to the worker
MessageTypes == {"SKIP_WAITING", "CLEANUP_CACHE", "CACHE_RESOURCES"}

\* event.data: absent, an object without a type, or an object with a type
MessageData ==
  {[present |-> FALSE, type |-> ""]}
    \union {[present |-> TRUE, type |-> t] : t \in MessageTypes \union {""}}

Message(t) == [present |-> TRUE, type |-> t]

\* faulty variant: any message with data starts the pass
IsCleanupMessageAnyType(data) == data.present

\* the test of the first message listener
IsCleanupMessage(data) == data.present /\ data.type = "CLEANUP_CACHE"

\* the test of the second message listener
IsSkipWaitingMessage(data) == data.present /\ data.type = "SKIP_WAITING"

\* a message event: both listeners run. The first starts cleanupOldCache,
\* which runs up to caches.open; the second calls self.skipWaiting()
MessageEvent(data) ==
  /\ Len(messages) < MaxMessages
  /\ messages' = Append(messages, data)
  /\ IF IsCleanupMessage(data)
     THEN /\ cleanup.pc = "idle"
          /\ cleanup' = [cleanup EXCEPT !.pc = "open"]
     ELSE cleanup' = cleanup
  /\ skipWaitingCalled' = (skipWaitingCalled \/ IsSkipWaitingMessage(data))
  /\ UNCHANGED <<phase, caches, toDelete, fetchH, queue, drains, inflight,
                 host, storage, pushH, clickH, windowClients, classified>>

\* a CLEANUP_CACHE message to the active worker
CleanupMessage ==
  /\ phase = "activated"
  /\ MessageEvent(Message("CLEANUP_CACHE"))

\* caches.open(DYNAMIC_CACHE) settled; cache.keys() is called
CleanupOpened ==
  /\ cleanup.pc = "open"
  /\ IF storage = "unavailable"
     THEN /\ caches' = caches
          /\ cleanup' = [cleanup EXCEPT !.pc = "rejected"]
     ELSE /\ caches' = CachesOpen(caches, DYNAMIC_CACHE)
          /\ cleanup' = [cleanup EXCEPT !.pc = "keys"]
  /\ UNCHANGED <<phase, toDelete, skipWaitingCalled, fetchH, queue,
                 drains, inflight, hostVars, storage, pushH, clickH, windowClients,
                 classified>>

\* cache.keys() settled: above the limit, one cache.delete per oldest
\* request is started and Promise.all awaits them
CleanupKeys ==
  /\ cleanup.pc = "keys"
  /\ LET entries == EntriesOf(caches, DYNAMIC_CACHE)
         requests == CacheKeys(entries)
         doomed == cleanupToDelete(requests) IN
       cleanup' = [cleanup EXCEPT
                     !.before = entries,
                     !.requests = requests,
                     !.toDelete = {doomed[i] : i \in 1..Len(doomed)},
                     !.pc = IF Len(requests) > CleanupKeep THEN "deleting"
                            ELSE "done"]
  /\ UNCHANGED <<phase, caches, toDelete, skipWaitingCalled, fetchH, queue,
                 drains, inflight, hostVars, storage, pushH, clickH, windowClients,
                 classified>>

\* one of the started cache.delete settles; the last one resolves Promise.all
CleanupDelete ==
  /\ cleanup.pc = "deleting"
  /\ \E key \in cleanup.toDelete :
       /\ caches' = CacheDelete(caches, DYNAMIC_CACHE, key)
       /\ cleanup' = [cleanup EXCEPT
                        !.toDelete = @ \ {key},
                        !.pc = IF cleanup.toDelete = {key} THEN "done"
                               ELSE "deleting"]
  /\ UNCHANGED <<phase, toDelete, skipWaitingCalled, fetchH, queue,
                 drains, inflight, hostVars, storage, pushH, clickH, windowClients,
                 classified>>

\* a cache.put that a strategy started on the dynamic store is applied while
\* the cleanup is under way: for the oldest key, or for a new one
DynamicPut ==
  /\ phase = "activated"
  /\ cleanup.puts = 0
  /\ HasCache(caches, DYNAMIC_CACHE)
  /\ \E key \in {1, Len(EntriesOf(caches, DYNAMIC_CACHE)) + 1}, b \in Bodies :
       caches' = CachePut(caches, DYNAMIC_CACHE, key, Resp(200, b))
  /\ cleanup' = [cleanup EXCEPT
                   !.puts = 1,
                   !.raced = cleanup.pc \in {"deleting", "done", "rejected"}]
  /\ UNCHANGED <<phase, toDelete, skipWaitingCalled, fetchH, queue,
                 drains, inflight, hostVars, storage, pushH, clickH, windowClients,
                 classified>>

Cleaning ==
  \/ CleanupMessage
  \/ CleanupOpened
  \/ CleanupKeys
  \/ CleanupDelete
  \/ DynamicPut

\* the worker starts over a dynamic store of up to MaxSeed entries
InitSeeded ==
  /\ InitWorker
  /\ InitEvents
  /\ \E n \in 0..MaxStale, m \in 0..MaxSeed :
       caches = StaleStores(n) \o SeededStore(m)
  /\ queue = [k \in Kinds |-> <<>>]

NextCleanup == Lifecycle \/ Cleaning

SpecCleanup == InitSeeded /\ [][NextCleanup]_vars

\* the worker receives messages of every kind, in every phase of its life,
\* over an empty or an overfull dynamic store
Messaging == \E data \in MessageData : MessageEvent(data)

InitMessaging ==
  /\ InitWorker
  /\ InitEvents
  /\ \E n \in 0..MaxStale, m \in {0, MaxSeed} :
       caches = StaleStores(n) \o SeededStore(m)
  /\ queue = [k \in Kinds |-> <<>>]

NextMessage ==
  \/ Lifecycle
  \/ Messaging
  \/ CleanupOpened
  \/ CleanupKeys
  \/ CleanupDelete

SpecMessage == InitMessaging /\ [][NextMessage]_vars

\* ------------------------------------------------------------ the page
\* PWA.registerServiceWorker: register('/sw.js') resolves or rejects; the
\* catch only logs
HostRegister(ok) ==
  /\ ~host.initDone
  /\ ok => host.supported
  /\ host' = [host EXCEPT !.initDone = TRUE, !.swRegistration = ok]
  /\ UNCHANGED <<phase, caches, toDelete, skipWaitingCalled, fetchH, queue,
                 drains, inflight, messages, storage, cleanup, pushH, clickH,
                 windowClients, classified>>

\* the tags PWA.syncOfflineData registers, in its order
HostSyncTags == <<"background-sync-bookings", "background-sync-rides">>

\* the 'online' event: syncOfflineData runs up to its first await, or returns
\* at once without a registration
HostOnline ==
  /\ host.syncPc \in {"idle", "returned", "failed", "done"}
  /\ host' = [host EXCEPT
       !.syncPc = IF host.swRegistration THEN "register" ELSE "returned",
       !.syncIdx = IF host.swRegistration THEN 1 ELSE 0]
  /\ UNCHANGED <<phase, caches, toDelete, skipWaitingCalled, fetchH, queue,
                 drains, inflight, messages, storage, cleanup, pushH, clickH,
                 windowClients, classified>>

\* sync.register(tag) settled: it resolves only with an active worker; a
\* rejection ends syncOfflineData in its catch
HostSyncRegistered(ok) ==
  /\ host.syncPc = "register"
  /\ ok => phase = "activated"
  /\ host' = [host EXCEPT
       !.syncTags = IF ok THEN @ \union {HostSyncTags[host.syncIdx]} ELSE @,
       !.syncPc = IF ~ok THEN "failed"
                  ELSE IF host.syncIdx = Len(HostSyncTags) THEN "done"
                  ELSE "register",
       !.syncIdx = IF ok /\ host.syncIdx < Len(HostSyncTags) THEN @ + 1 ELSE 0]
  /\ UNCHANGED <<phase, caches, toDelete, skipWaitingCalled, fetchH, queue,
                 drains, inflight, messages, storage, cleanup, pushH, clickH,
                 windowClients, classified>>

\* Bookings.createBooking and Rides.handleOfferRide: the POST is answered,
\* or fails in the network and the catch logs and shows a toast
HostSubmit(kind, ok) ==
  /\ kind \notin host.succeeded \union host.failed
  /\ host' = [host EXCEPT
       !.succeeded = IF ok THEN @ \union {kind} ELSE @,
       !.failed = IF ok THEN @ ELSE @ \union {kind}]
  /\ UNCHANGED <<phase, caches, toDelete, skipWaitingCalled, fetchH, queue,
                 drains, inflight, messages, storage, cleanup, pushH, clickH,
                 windowClients, classified>>

\* the browser fires a sync event for a tag the page registered, or for
\* another tag
HostSyncFires(d) ==
  \E tag \in host.syncTags \union {"background-sync"} : SyncEvent(d, tag)

Hosting ==
  \/ \E ok \in BOOLEAN : HostRegister(ok)
  \/ HostOnline
  \/ \E ok \in BOOLEAN : HostSyncRegistered(ok)
  \/ \E kind \in Kinds, ok \in BOOLEAN : HostSubmit(kind, ok)
  \/ \E d \in D : HostSyncFires(d)
  \/ \E d \in D : SyncLoaded(d)

NextHost == Lifecycle \/ Hosting

\* ------------------------------------------------------- update channel
\* registration.waiting: the generation is installed and not yet activating
Waiting == phase = "installed"

\* handleServiceWorkerUpdate's statechange listener, for the change to
\* 'installed'; the activation may already have started when it runs
HostStateChange ==
  /\ phase \notin {"parsed", "install_open", "install_addAll"}
  /\ ~host.notified
  /\ host' = [host EXCEPT !.notified = TRUE,
                          !.updateAvailable = host.controller]
  /\ UNCHANGED <<phase, caches, toDelete, skipWaitingCalled, fetchH, queue,
                 drains, inflight, messages, storage, cleanup, pushH, clickH,
                 windowClients, classified>>

\* the user presses Update on the banner: PWA.applyUpdate
HostApplyUpdate ==
  /\ host.updateAvailable
  /\ ~host.applied
  /\ host' = [host EXCEPT
       !.applied = TRUE,
       !.posted = IF host.swRegistration /\ Waiting THEN @ + 1 ELSE @,
       !.reloads = IF host.swRegistration /\ Waiting THEN @ + 1 ELSE @]
  /\ UNCHANGED <<phase, caches, toDelete, skipWaitingCalled, fetchH, queue,
                 drains, inflight, messages, storage, cleanup, pushH, clickH,
                 windowClients, classified>>

\* the SKIP_WAITING message the page posted reaches the worker
UpdateMessage ==
  /\ host.posted > Len(messages)
  /\ MessageEvent(Message("SKIP_WAITING"))

Updating ==
  \/ HostStateChange
  \/ HostApplyUpdate
  \/ UpdateMessage

\* a registered page, controlled by an older generation or by none, while
\* this generation is installed
InitUpdate ==
  /\ InitGeneration
  /\ InitEvents
  /\ messages = <<>>
  /\ \E c \in BOOLEAN :
       host = [IdleHost EXCEPT !.initDone = TRUE, !.swRegistration = TRUE,
                               !.controller = c]
  /\ \E n \in 0..MaxStale, f \in ForeignStores : caches = StaleStores(n) \o f
  /\ queue = [k \in Kinds |-> <<>>]

NextUpdate == Lifecycle \/ Updating

SpecUpdate == InitUpdate /\ [][NextUpdate]_vars

\* ------------------------------------------ operations on the registration
\* faulty variant: the registration is used without the test
HasRegistrationUntested(h) == TRUE

\* `this.state.swRegistration` as a condition
HasRegistration(h) == h.swRegistration

\* a property of swRegistration is read: a TypeError when it is null
Deref(h, effect) == IF h.swRegistration THEN effect ELSE [h EXCEPT !.threw = TRUE]

\* PWA.applyUpdate
applyUpdate(h) ==
  IF HasRegistration(h)
  THEN Deref(h, IF Waiting
                THEN [h EXCEPT !.posted = @ + 1, !.reloads = @ + 1]
                ELSE h)
  ELSE h

\* PWA.cacheResources: the message goes to the controller, if there is one
cacheResources(h) ==
  IF ~HasRegistration(h) THEN h
  ELSE Deref(h, IF h.controller THEN [h EXCEPT !.cachePosts = @ + 1] ELSE h)

\* the interval and visibilitychange callbacks of PWA.initUpdateHandler
updateCheck(h) ==
  IF HasRegistration(h)
  THEN Deref(h, [h EXCEPT !.updateChecks = @ + 1])
  ELSE h

HostOps == {"applyUpdate", "cacheResources", "updateCheck"}

\* one of the operations is called
HostCall(op) ==
  /\ host.initDone
  /\ Len(host.calls) < MaxCalls
  /\ LET h == [host EXCEPT !.calls = Append(@, op)] IN
       host' = CASE op = "applyUpdate" -> applyUpdate(h)
                 [] op = "cacheResources" -> cacheResources(h)
                 [] OTHER -> updateCheck(h)
  /\ UNCHANGED <<phase, caches, toDelete, skipWaitingCalled, fetchH, queue,
                 drains, inflight, messages, storage, cleanup, pushH, clickH,
                 windowClients, classified>>

\* a page on a browser with or without service workers, controlled or not
InitCalls ==
  /\ InitGeneration
  /\ InitEvents
  /\ messages = <<>>
  /\ \E sup, c \in BOOLEAN :
       host = [IdleHost EXCEPT !.supported = sup, !.controller = sup /\ c]
  /\ \E n \in 0..MaxStale : caches = StaleStores(n)
  /\ queue = [k \in Kinds |-> <<>>]

NextCalls ==
  \/ Lifecycle
  \/ \E ok \in BOOLEAN : HostRegister(ok)
  \/ HostOnline
  \/ \E ok \in BOOLEAN : HostSyncRegistered(ok)
  \/ \E op \in HostOps : HostCall(op)

SpecCalls == InitCalls /\ [][NextCalls]_vars

\* the page has queued nothing
InitPage ==
  /\ InitWorker
  /\ InitEvents
  /\ \E n \in 0..MaxStale : caches = StaleStores(n)
  /\ queue = [k \in Kinds |-> <<>>]

\* the page and the worker it registers
SpecHost == InitPage /\ [][NextHost]_vars

\* ------------------------------------------------- claims on the strategies
\* the entries the stores hold for a key
EntriesFor(cs, key) ==
  {EntryMatch(cs[i].entries, key) : i \in 1..Len(cs)} \ {Undefined}

\* the number of entries a store holds for a key
EntryCount(cs, name, key) ==
  IF HasCache(cs, name)
  THEN Len(SelectSeq(cs[CacheIndex(cs, name)].entries, LAMBDA e : e.key = key))
  ELSE 0

\* C1: when cacheFirst's lookup of a StaticAsset request finds a store entry,
\* the handler returns an entry held for that key and has fetched nothing
\* from the network, then and ever after.
C1_CacheFirstHit ==
  /\ [][\A h \in H :
          (/\ fetchH[h].pc = "cf_match"
           /\ fetchH'[h].pc # "cf_match"
           /\ EntriesFor(caches, KeyOf(h)) # {})
          => /\ fetchH'[h].pc = "done"
             /\ fetchH'[h].delivered
             /\ fetchH'[h].result \in EntriesFor(caches, KeyOf(h))
             /\ fetchH'[h].net = 0]_vars
  /\ [](\A h \in H :
          (/\ fetchH[h].pc = "done"
           /\ StrategyOf(h) = "cacheFirst"
           /\ fetchH[h].cached # Undefined)
          => /\ fetchH[h].net = 0
             /\ fetchH[h].result = fetchH[h].cached
             /\ fetchH[h].put = "none")

C1_Witness ==
  \E h \in H :
    /\ fetchH[h].pc = "done"
    /\ StrategyOf(h) = "cacheFirst"
    /\ CacheMatch(caches, STATIC_CACHE, KeyOf(h)) # Undefined
    /\ fetchH[h].result = CacheMatch(caches, STATIC_CACHE, KeyOf(h))
    /\ fetchH[h].net = 0

\* C2: a networkFirst request whose fetch returned a 2xx response R starts a
\* write of R to the dynamic store, and when that write completes the
\* dynamic store holds exactly one entry for the key, and it is R.
C2_NetworkFirstStores ==
  /\ [](\A h \in H :
          (/\ fetchH[h].pc = "done"
           /\ StrategyOf(h) = "networkFirst"
           /\ fetchH[h].resp # NetworkError
           /\ ResponseOk(fetchH[h].resp))
          => /\ fetchH[h].put \in {"pending", "applied"}
             /\ fetchH[h].result = fetchH[h].resp)
  /\ [][\A h \in H :
          (/\ fetchH[h].put = "pending"
           /\ fetchH'[h].put = "applied"
           /\ StrategyOf(h) = "networkFirst")
          => /\ CacheMatch(caches', DYNAMIC_CACHE, KeyOf(h)) = fetchH[h].resp
             /\ EntryCount(caches', DYNAMIC_CACHE, KeyOf(h)) = 1]_vars

\* two requests for one key were answered differently, and both writes are done
C2_Witness ==
  \E g, h \in H :
    /\ g # h
    /\ fetchH[g].pc = "done" /\ fetchH[h].pc = "done"
    /\ StrategyOf(g) = "networkFirst" /\ StrategyOf(h) = "networkFirst"
    /\ KeyOf(g) = KeyOf(h)
    /\ fetchH[g].put = "applied" /\ fetchH[h].put = "applied"
    /\ fetchH[g].resp # fetchH[h].resp
    /\ CacheMatch(caches, DYNAMIC_CACHE, KeyOf(h)) = fetchH[h].resp
    /\ EntryCount(caches, DYNAMIC_CACHE, KeyOf(h)) = 1

\* C3: when networkFirst's fetch fails, the handler returns the dynamic
\* store's entry for the key if there is one, and otherwise the failure
\* propagates out of networkFirst.
C3_NetworkFirstFallback ==
  [][\A h \in H :
       (fetchH[h].pc = "nf_match" /\ fetchH'[h].pc # "nf_match")
       => IF CacheMatch(caches, DYNAMIC_CACHE, KeyOf(h)) # Undefined
          THEN /\ fetchH'[h].delivered
               /\ ~fetchH'[h].threw
               /\ fetchH'[h].result = CacheMatch(caches, DYNAMIC_CACHE, KeyOf(h))
          ELSE fetchH'[h].threw]_vars

\* C4: when staleWhileRevalidate finds a dynamic-store entry, the entry is
\* delivered in the step that starts the network fetch, so the response is
\* with the caller while that fetch is still pending.
C4_SwrDoesNotWait ==
  /\ [][\A h \in H :
          (/\ fetchH[h].pc = "swr_match"
           /\ fetchH'[h].pc # "swr_match"
           /\ CacheMatch(caches, DYNAMIC_CACHE, KeyOf(h)) # Undefined)
          => /\ fetchH'[h].delivered
             /\ fetchH'[h].result = CacheMatch(caches, DYNAMIC_CACHE, KeyOf(h))
             /\ fetchH'[h].pc = "swr_fetch"
             /\ fetchH'[h].net = 1]_vars
  /\ [](\A h \in H :
          (/\ fetchH[h].pc = "swr_fetch"
           /\ fetchH[h].cached # Undefined)
          => fetchH[h].delivered)

\* the cached response is delivered and the background fetch is pending
C4_Witness ==
  \E h \in H :
    /\ fetchH[h].pc = "swr_fetch"
    /\ fetchH[h].cached # Undefined
    /\ fetchH[h].delivered
    /\ fetchH[h].result = fetchH[h].cached


\* the worker over an origin that holds no store of another application
InitOwnStores ==
  /\ InitWorker
  /\ InitEvents
  /\ \E n \in 0..MaxStale : caches = StaleStores(n)
  /\ queue = [k \in Kinds |-> <<>>]

\* a write started by cache.put is carried out
FairSpec ==
  InitOwnStores /\ [][Next]_vars /\ \A h \in H : WF_vars(PutSettled(h))

\* C5: after staleWhileRevalidate has returned a cached entry, a 2xx result
\* of the background fetch is eventually written to the dynamic store under
\* the key; a failed or non-2xx background fetch starts no write and leaves
\* the stores as they are; and the response already returned never changes.
C5_SwrBackground ==
  /\ [][\A h \in H :
          (/\ fetchH[h].pc = "swr_fetch"
           /\ fetchH[h].delivered
           /\ fetchH'[h].pc = "done")
          => /\ caches' = caches
             /\ ~fetchH'[h].threw
             /\ IF fetchH'[h].resp # NetworkError /\ ResponseOk(fetchH'[h].resp)
                THEN fetchH'[h].put = "pending" /\ fetchH'[h].putCache = DYNAMIC_CACHE
                ELSE fetchH'[h].put = "none"]_vars
  /\ [][\A h \in H :
          fetchH[h].delivered
          => fetchH'[h].delivered /\ fetchH'[h].result = fetchH[h].result]_vars
  /\ [][\A h \in H :
          (/\ fetchH[h].put = "pending"
           /\ fetchH'[h].put = "applied"
           /\ StrategyOf(h) = "staleWhileRevalidate")
          => CacheMatch(caches', DYNAMIC_CACHE, KeyOf(h)) = fetchH[h].resp]_vars
  /\ \A h \in H :
       (/\ fetchH[h].put = "pending"
        /\ StrategyOf(h) = "staleWhileRevalidate"
        /\ fetchH[h].cached # Undefined)
       ~> (fetchH[h].put = "applied")

\* the refreshed entry replaced the one that was returned
C5_Witness ==
  \E h \in H :
    /\ fetchH[h].pc = "done"
    /\ StrategyOf(h) = "staleWhileRevalidate"
    /\ fetchH[h].cached # Undefined
    /\ fetchH[h].put = "applied"
    /\ fetchH[h].result = fetchH[h].cached
    /\ fetchH[h].resp # fetchH[h].cached
    /\ CacheMatch(caches, DYNAMIC_CACHE, KeyOf(h)) = fetchH[h].resp


\* ------------------------------------------------------ claims on the drains
Ids(tasks) == [i \in 1..Len(tasks) |-> tasks[i].id]

IdSet(tasks) == {tasks[i].id : i \in 1..Len(tasks)}

\* the submissions a drain has in flight
InFlightOf(infl, d) == {s \in infl : s.drain = d}

\* a drain between its load and its finish
Draining(d) == drains[d].pc \in {"load", "submit", "remove"}

\* C6: after a drain cycle the queue of its kind holds exactly the tasks
\* whose submission in that cycle did not succeed: every task still queued
\* was submitted and not answered 2xx, and no task answered 2xx is queued.
C6_DrainOutcome ==
  \A d \in D :
    drains[d].pc = "done"
    => LET q == queue[drains[d].kind] IN
         /\ \A i \in 1..Len(q) :
              \E j \in 1..Len(drains[d].outcomes) :
                drains[d].tried[j] = q[i].id /\ ~drains[d].outcomes[j]
         /\ \A j \in 1..Len(drains[d].outcomes) :
              drains[d].outcomes[j] => drains[d].tried[j] \notin IdSet(q)

FailsNow(d) ==
  /\ Len(drains'[d].outcomes) = Len(drains[d].outcomes) + 1
  /\ ~drains'[d].outcomes[Len(drains'[d].outcomes)]

\* a task leaves the queue only in the step that ends the removal awaited by
\* a drain whose submission of that very task was answered 2xx
RemovalOnlyAfter2xx ==
  \A k \in Kinds : \A i \in 1..Len(queue[k]) :
    queue[k][i].id \notin IdSet(queue'[k])
    => \E d \in D :
         /\ drains[d].pc = "remove"
         /\ drains[d].kind = k
         /\ drains[d].loaded[drains[d].idx].id = queue[k][i].id
         /\ drains[d].outcomes[drains[d].idx]

LastOf(seq, n) ==
  IF Len(seq) <= n THEN seq ELSE SubSeq(seq, Len(seq) - n + 1, Len(seq))

\* C11: a cleanup pass that no put overlaps leaves, of the n entries the
\* store held, the min(n, 50) inserted last, in their order and unchanged;
\* with n <= 50 that is the store as it was.
C11_CleanupKeepsNewest ==
  (cleanup.pc = "done" /\ ~cleanup.raced)
  => EntriesOf(caches, DYNAMIC_CACHE) = LastOf(cleanup.before, CleanupKeep)

C11_Witness ==
  /\ cleanup.pc = "done"
  /\ ~cleanup.raced
  /\ Len(cleanup.before) = CleanupKeep + 2
  /\ Len(EntriesOf(caches, DYNAMIC_CACHE)) = CleanupKeep
  /\ EntriesOf(caches, DYNAMIC_CACHE)[1].key = 3


\* ---------------------------------------------------- claims on activation
\* a store of the shared prefix that is not one of the two current stores
StaleName(name) ==
  /\ name[1] = "riders-"
  /\ name # <<"riders-", "static-v1.0.0">>
  /\ name # <<"riders-", "dynamic-v1.0.0">>

StoreCount(cs, name) == Cardinality({i \in 1..Len(cs) : cs[i].name = name})

\* C12: once the activate handler has completed no store of the prefix
\* 'riders-' other than the current static and dynamic store exists, and no
\* step of the worker removes or changes a store whose name does not start
\* with the prefix.
C12_ActivationEviction ==
  /\ [](phase = "activated"
        => \A i \in 1..Len(caches) : ~StaleName(caches[i].name))
  /\ [][\A i \in 1..Len(caches) :
          caches[i].name[1] # "riders-"
          => \E j \in 1..Len(caches') : caches'[j] = caches[i]]_vars

\* the filter has picked the stale store and left the unrelated one
C12_Witness ==
  /\ phase = "activate_delete"
  /\ toDelete = {CACHE_NAME}
  /\ HasCache(caches, FOREIGN_CACHE)
  /\ Len(EntriesOf(caches, FOREIGN_CACHE)) = 1

C18_OfflineResponse ==
  \A h \in H :
    (/\ fetchH[h].pc = "done"
     /\ Requests[fetchH[h].req].mode = "navigate"
     /\ fetchH[h].resp = NetworkError)
    => /\ fetchH[h].delivered
       /\ fetchH[h].result # Undefined
       /\ (fetchH[h].cached = Undefined /\ CachesMatch(caches, RootKey) = Undefined)
          => fetchH[h].result = OfflineResponse


\* the handler's network fetch was answered, and the handler had not
\* already returned a cached entry
AnsweredByNetwork(h) ==
  /\ fetchH[h].pc = "done"
  /\ fetchH[h].resp # Undefined
  /\ fetchH[h].resp # NetworkError
  /\ (StrategyOf(h) = "staleWhileRevalidate" => fetchH[h].cached = Undefined)

\* C19: when the network answered a request, the caller receives that
\* answer whether or not the store could be opened or written: not a cached
\* fallback, an error or the synthesized offline response.
C19_StoreFailureIgnored ==
  \A h \in H :
    AnsweredByNetwork(h)
    => /\ fetchH[h].delivered
       /\ ~fetchH[h].threw
       /\ fetchH[h].result = fetchH[h].resp


\* --------------------------------------------- claims on the classification
\* the static-asset rule: an extension of the set, an app-shell path, or an
\* asset-CDN hostname; letter case of the path does not count
StaticRule(url) ==
  LET path == ToLowerCase(url.pathname) IN
    \/ path[Len(path)] \in {".css", ".js", ".png", ".jpg", ".jpeg", ".svg",
                            ".ico", ".woff", ".woff2"}
    \/ path \in {<<"/">>, <<"/", "index.html">>, <<"/", "manifest.json">>}
    \/ url.hostname \in {"fonts.googleapis.com", "fonts.gstatic.com",
                         "cdnjs.cloudflare.com"}

\* the API rule: the path starts with '/api/' or contains a warm sub-path
ApiRule(url) ==
  LET path == url.pathname IN
    \/ (Len(path) >= 3 /\ path[1] = "/" /\ path[2] = "api" /\ path[3] = "/")
    \/ \E i \in 1..Len(path), warm \in {<<"rides", "/", "search">>,
                                         <<"users", "/", "profile">>,
                                         <<"auth", "/", "me">>} :
         /\ i + 5 <= Len(path)
         /\ SubSeq(path, i, i + 5) = <<"/", "api", "/">> \o warm

\* C20: the strategy handleFetch chooses is cache-first for a URL under the
\* static-asset rule, also when its path starts with '/api/'; otherwise
\* network-first for a URL under the API rule; otherwise
\* stale-while-revalidate. Every URL gets one of the three.
C20_ClassificationPriority ==
  classified.pc = "done"
  => classified.strategy =
       IF StaticRule(classified.url) THEN "cacheFirst"
       ELSE IF ApiRule(classified.url) THEN "networkFirst"
       ELSE "staleWhileRevalidate"

C20_Witness ==
  /\ classified.pc = "done"
  /\ classified.url.hostname = "riders.app"
  /\ classified.url.pathname = <<"/", "api", "/", "app", ".js">>
  /\ classified.strategy = "cacheFirst"


\* ------------------------------------------------- claims on notifications
\* the payload texts that are not JSON
NotJson == {"Seat booked", "{\"title\":"}

\* C14: every push event, whatever its payload, ends in exactly one call of
\* showNotification and the listener does not throw; for a payload that is
\* not JSON the body is the raw text and the title 'Riders Luxury'.
C14_PushAlwaysShows ==
  \A p \in P :
    pushH[p].pc # "idle"
    => /\ ~pushH[p].threw
       /\ pushH[p].shown = 1
       /\ (pushH[p].payload.present /\ pushH[p].payload.text \in NotJson)
          => /\ pushH[p].body = pushH[p].payload.text
             /\ pushH[p].title = "Riders Luxury"


\* the target of a click by the routing rule: an explicit data.url first,
\* then the view of the data's type, then the root
RoutedTarget(data) ==
  IF data.url # <<>> THEN data.url
  ELSE IF data.type = "booking" THEN <<"/", "?", "bookings=true">>
  ELSE IF data.type = "ride" THEN <<"/", "?", "search=true">>
  ELSE <<"/">>

\* C15: for every click that is not a dismissal, on the 'view' action or on
\* the body, the target is data.url when there is one, otherwise the
\* bookings view for type 'booking', the search view for type 'ride', and
\* '/' for anything else.
C15_ClickRouting ==
  (clickH.pc # "idle" /\ clickH.action # "dismiss")
  => clickH.url = RoutedTarget(clickH.data)

\* the window shows the location
Shows(clientUrl, url) == clientUrl = <<"https://riders.app">> \o url

\* C16: a click that is not a dismissal ends with exactly one of a focus
\* and an open; the focused window already showed the target location, and
\* when no open window showed it a new window is opened at the target.
C16_ReuseOrOpen ==
  [][(clickH.pc = "matchAll" /\ clickH'.pc = "done")
     => /\ (clickH'.focused # 0) # (clickH'.opened # <<>>)
        /\ clickH'.focused # 0
           => Shows(windowClients[clickH'.focused], clickH.url)
        /\ (\A i \in 1..Len(windowClients) : ~Shows(windowClients[i], clickH.url))
           => clickH'.opened = clickH.url]_vars

\* C17: a dismissal enumerates, focuses and opens no window, whatever the
\* notification's data.
C17_DismissDoesNothing ==
  (clickH.pc # "idle" /\ clickH.action = "dismiss")
  => /\ clickH.pc = "done"
     /\ ~clickH.enumerated
     /\ clickH.focused = 0
     /\ clickH.opened = <<>>

C17_Witness ==
  /\ clickH.pc = "done"
  /\ clickH.action = "dismiss"
  /\ clickH.closed
  /\ clickH.data.url # <<>>
  /\ clickH.data.type = "booking"
  /\ Len(windowClients) = MaxWindows


\* ------------------------------------------------- claims on interception
\* the request is not a GET, or its scheme is not http or https
Excluded(req) ==
  \/ req.method # "GET"
  \/ Urls[req.url].protocol \notin {<<"http", ":">>, <<"http", "s:">>}

\* C21: for a request that is not a GET or not of an http(s) scheme the
\* listener does not call respondWith and reads and writes no store: no
\* lookup, no fetch and no put is made for it, and the step that handles it
\* leaves the storage as it is. Every write to a store is for a GET request
\* and every key in a store is an http(s) URL.
C21_ExcludedBypass ==
  /\ [](\A h \in H :
          (fetchH[h].pc # "idle" /\ Excluded(Requests[fetchH[h].req]))
          => /\ fetchH[h].pc = "bypass"
             /\ ~fetchH[h].delivered
             /\ fetchH[h].cached = Undefined
             /\ fetchH[h].net = 0
             /\ fetchH[h].put = "none")
  /\ [](\A h \in H :
          fetchH[h].put # "none" => Requests[fetchH[h].req].method = "GET")
  /\ [](\A i \in 1..Len(caches) : \A j \in 1..Len(caches[i].entries) :
          Urls[caches[i].entries[j].key].protocol[1] = "http")
  /\ [][\A h \in H :
          (fetchH[h].pc = "idle" /\ fetchH'[h].pc = "bypass")
          => caches' = caches]_vars

\* a POST and an extension's GET both went past the worker
C21_Witness ==
  \E g, h \in H :
    /\ fetchH[g].pc = "bypass" /\ fetchH[h].pc = "bypass"
    /\ Requests[fetchH[g].req].method = "POST"
    /\ Urls[Requests[fetchH[h].req].url].protocol = <<"chrome-extension:">>


\* C22: on a cache-first miss one fetch is made; a 2xx response is in the
\* static store under the request's key by the time it is returned to the
\* caller, a response that is not 2xx is returned and nothing is written, and
\* a failed fetch leaves cacheFirst as an exception.
C22_CacheFirstMiss ==
  /\ [](\A h \in H :
          (fetchH[h].pc # "idle" /\ StrategyOf(h) = "cacheFirst")
          => /\ fetchH[h].net <= 1
             /\ (fetchH[h].resp = NetworkError => fetchH[h].threw)
             /\ ((fetchH[h].resp \notin {Undefined, NetworkError}
                   /\ ~ResponseOk(fetchH[h].resp))
                  => /\ fetchH[h].put = "none"
                     /\ fetchH[h].result = fetchH[h].resp))
  /\ [][\A h \in H :
          (/\ fetchH[h].pc # "idle"
           /\ StrategyOf(h) = "cacheFirst"
           /\ ~fetchH[h].delivered /\ fetchH'[h].delivered
           /\ ResponseOk(fetchH'[h].resp)
           /\ fetchH'[h].result = fetchH'[h].resp)
          => CacheMatch(caches', STATIC_CACHE, KeyOf(h)) = fetchH'[h].resp]_vars


\* the handler runs staleWhileRevalidate and found no entry for its key
SwrMiss(h) ==
  /\ fetchH[h].pc \in {"swr_fetch", "fb_match", "done"}
  /\ StrategyOf(h) = "staleWhileRevalidate"
  /\ fetchH[h].cached = Undefined

\* C23: on a stale-while-revalidate miss the caller is answered only when the
\* fetch has settled and with the fetch's response; a 2xx response is written
\* to the dynamic store; a failed fetch reaches the caller through the
\* offline fallback and never as an empty result.
C23_SwrMiss ==
  \A h \in H :
    SwrMiss(h)
    => /\ (fetchH[h].pc = "swr_fetch" => ~fetchH[h].delivered)
       /\ ((fetchH[h].pc = "done" /\ fetchH[h].resp \notin {Undefined, NetworkError})
            => /\ fetchH[h].result = fetchH[h].resp
               /\ (ResponseOk(fetchH[h].resp) => fetchH[h].put # "none"))
       /\ (fetchH[h].resp = NetworkError
            => /\ fetchH[h].threw
               /\ (fetchH[h].delivered => fetchH[h].result # Undefined))


\* the data of the message the step delivered
Delivered == messages'[Len(messages')]

DynamicKeys(cs) ==
  {EntriesOf(cs, DYNAMIC_CACHE)[i].key : i \in 1..Len(EntriesOf(cs, DYNAMIC_CACHE))}

\* C25: an entry leaves the current dynamic store only in a deletion of the
\* eviction pass, and the pass starts only on a CLEANUP_CACHE message: a put
\* of a strategy, install and activate remove nothing, so without the message
\* the number of entries never decreases, also above the cap of 50.
C25_EvictionOnlyOnTrigger ==
  /\ [][DynamicKeys(caches) \ DynamicKeys(caches') # {}
        => /\ cleanup.pc = "deleting"
           /\ DynamicKeys(caches) \ DynamicKeys(caches')
                = cleanup.toDelete \ cleanup'.toDelete]_vars
  /\ [][(cleanup.pc = "idle" /\ cleanup'.pc # "idle")
        => /\ Len(messages') = Len(messages) + 1
           /\ messages'[Len(messages')] = Message("CLEANUP_CACHE")]_vars
  /\ [][cleanup.pc \in {"idle", "done"}
        => Len(EntriesOf(caches', DYNAMIC_CACHE))
             >= Len(EntriesOf(caches, DYNAMIC_CACHE))]_vars

\* no message was received and a put has taken the store beyond the cap
C25_Witness ==
  /\ phase = "activated"
  /\ messages = <<>>
  /\ cleanup.pc = "idle"
  /\ cleanup.puts = 1
  /\ Len(EntriesOf(caches, DYNAMIC_CACHE)) = CleanupKeep + 1


\* the handlers whose write for h's key to h's store has been applied
AppliedWriters(h) ==
  {g \in H : /\ fetchH[g].pc # "idle"
             /\ fetchH[g].put = "applied"
             /\ fetchH[g].putCache = fetchH[h].putCache
             /\ KeyOf(g) = KeyOf(h)}

\* C29: a store holds at most one entry per key; the write of a handler that
\* completes makes the entry of its key that handler's response, whatever
\* was written before, and leaves one entry for the key; once the writes of
\* concurrent handlers for one key are all applied, the entry is the whole
\* response of one of them.
C29_LastWriteWins ==
  /\ [](\A i \in 1..Len(caches) : \A j, k \in 1..Len(caches[i].entries) :
          caches[i].entries[j].key = caches[i].entries[k].key => j = k)
  /\ [][\A h \in H :
          (fetchH[h].put = "pending" /\ fetchH'[h].put = "applied")
          => /\ CacheMatch(caches', fetchH[h].putCache, KeyOf(h)) = fetchH[h].resp
             /\ EntriesOf(caches', fetchH[h].putCache)
                  [Len(EntriesOf(caches', fetchH[h].putCache))]
                  = [key |-> KeyOf(h), resp |-> fetchH[h].resp]]_vars
  /\ [](\A h \in H :
          (/\ fetchH[h].pc # "idle"
           /\ fetchH[h].put = "applied"
           /\ \A g \in H : (fetchH[g].pc # "idle" /\ KeyOf(g) = KeyOf(h))
                            => fetchH[g].put # "pending")
          => CacheMatch(caches, fetchH[h].putCache, KeyOf(h))
               \in {fetchH[g].resp : g \in AppliedWriters(h)})

\* two stale-while-revalidate requests for one page got different 2xx
\* bodies; both writes are applied and the store holds the first handler's
C29_Witness ==
  /\ fetchH[1].pc = "done" /\ fetchH[2].pc = "done"
  /\ StrategyOf(1) = "staleWhileRevalidate"
  /\ StrategyOf(2) = "staleWhileRevalidate"
  /\ KeyOf(1) = KeyOf(2)
  /\ fetchH[1].put = "applied" /\ fetchH[2].put = "applied"
  /\ fetchH[1].resp # fetchH[2].resp
  /\ EntriesOf(caches, DYNAMIC_CACHE) = <<[key |-> KeyOf(1), resp |-> fetchH[1].resp]>>


\* ------------------------------------------------------ claims on install
\* C28: in the worker with a static and a dynamic store, an install whose
\* manifest could not be fetched whole is aborted: the generation becomes
\* installed only with the manifest in the static store.
C28_InstallAborts ==
  [][(phase = "install_addAll" /\ phase' = "installed")
     => CacheMatch(caches', STATIC_CACHE, STATIC_ASSETS[1]) # Undefined]_vars


\* ------------------------------------------------ claims on deferred sync
\* the drain a tag is for
DrainOf(tag) ==
  IF tag = "background-sync-bookings" THEN "booking"
  ELSE IF tag = "background-sync-rides" THEN "ride"
  ELSE "none"

\* C26: the page registers two tags and no other, one for each kind of task;
\* a sync event for a tag the page registered starts the drain of that
\* tag's kind, and a sync event for any other tag starts no drain.
C26_SyncTags ==
  /\ Cardinality({DrainOf(t) : t \in host.syncTags}) = Cardinality(host.syncTags)
  /\ {DrainOf(t) : t \in host.syncTags} \subseteq Kinds
  /\ host.syncPc = "done" => {DrainOf(t) : t \in host.syncTags} = Kinds
  /\ \A d \in D :
       drains[d].pc # "idle"
       => IF drains[d].tag \in host.syncTags
          THEN /\ drains[d].pc # "ignored"
               /\ drains[d].kind = DrainOf(drains[d].tag)
          ELSE /\ drains[d].pc = "ignored"
               /\ drains[d].kind = "none"

\* both tags are registered; the rides tag started the rides drain and
\* another tag was ignored
C26_Witness ==
  /\ host.syncPc = "done"
  /\ Cardinality(host.syncTags) = 2
  /\ drains[1].tag = "background-sync-rides" /\ drains[1].kind = "ride"
  /\ drains[1].pc # "load"
  /\ drains[2].tag = "background-sync" /\ drains[2].pc = "ignored"


\* the tag registered for a kind of task
TagOf(kind) == IF kind = "booking" THEN HostSyncTags[1] ELSE HostSyncTags[2]

\* C27: when a booking or a ride offer the page submits fails in the
\* network, a task for it is added to the queue of its kind and the tag of
\* its kind is registered for a deferred sync.
C27_OfflineEnqueue ==
  [][\A kind \in Kinds :
       (kind \notin host.failed /\ kind \in host'.failed)
       => /\ Len(queue'[kind]) = Len(queue[kind]) + 1
          /\ TagOf(kind) \in host'.syncTags]_vars


\* ------------------------------------------------ claims on the update
\* C30: a generation installed while an older one controls the page is not
\* activated before the page's SKIP_WAITING message has reached it; the page
\* sets updateAvailable only while such a generation is waiting; applyUpdate
\* posts SKIP_WAITING and reloads only when a generation is waiting.
C30_UpdateChannel ==
  /\ [][(host.controller /\ phase = "installed" /\ phase' # "installed")
        => \E i \in 1..Len(messages) : messages[i] = Message("SKIP_WAITING")]_vars
  /\ [][(~host.updateAvailable /\ host'.updateAvailable)
        => host.controller /\ phase = "installed" /\ ~skipWaitingCalled]_vars
  /\ [][(host'.posted > host.posted \/ host'.reloads > host.reloads)
        => /\ phase = "installed"
           /\ host'.posted = host.posted + 1
           /\ host'.reloads = host.reloads + 1]_vars


\* --------------------------------------------- claims on notifications
\* what the payload gives for a field: the field's value when the payload is
\* a JSON object that has it and it is not empty, null or 0
Given(payload, name) ==
  IF ~payload.present \/ JsonParse(payload.text) = Thrown THEN Missing
  ELSE LET v == JsonParse(payload.text) IN
         IF v.kind = "object" /\ v[name] \notin {Missing, "", "null", "0"}
         THEN v[name] ELSE Missing

Default(value, fallback) == IF value = Missing THEN fallback ELSE value

\* the notification of a handler has the payload's fields, or the defaults
ShownWithDefaults(p) ==
  /\ pushH[p].shown = 1
  /\ pushH[p].tag = Default(Given(pushH[p].payload, "tag"), "general")
  /\ pushH[p].data = Default(Given(pushH[p].payload, "data"), "{}")
  /\ pushH[p].vibrate
       = Default(Given(pushH[p].payload, "vibrate"), "[200,100,200]")
  /\ pushH[p].actions = <<"view", "dismiss">>
  /\ JsonParse(pushH[p].payload.text) # Thrown
     => /\ pushH[p].title
             = Default(Given(pushH[p].payload, "title"), "Riders Luxury")
        /\ pushH[p].body
             = Default(Given(pushH[p].payload, "body"), "You have a new update")

\* every notification that is shown has the payload's fields or the defaults
DefaultsWhenShown ==
  \A p \in P : pushH[p].pc \in {"showing", "displayed"} => ShownWithDefaults(p)

\* C31: for every push payload a notification is displayed whose title,
\* body, tag, data and vibrate are the payload's or else 'Riders Luxury',
\* 'You have a new update', 'general', {} and [200,100,200], and whose
\* actions are 'view' and 'dismiss', in that order.
C31_NotificationDefaults ==
  \A p \in P : pushH[p].pc # "idle" => ShownWithDefaults(p)


\* ------------------------------------------- claims on the registration
\* C32: when the registration of the worker failed, or service workers are
\* not supported, registerServiceWorker ends without an exception and with
\* swRegistration null, and syncOfflineData, applyUpdate, cacheResources and
\* the update check then do nothing and throw nothing.
C32_RegistrationFailureHarmless ==
  /\ ~host.threw
  /\ ~host.supported => ~host.swRegistration
  /\ (host.initDone /\ ~host.swRegistration)
     => /\ host.syncPc \in {"idle", "returned"}
        /\ host.syncTags = {}
        /\ host.posted = 0 /\ host.reloads = 0
        /\ host.cachePosts = 0
        /\ host.updateChecks = 0
        /\ messages = <<>>

\* the registration failed and every operation has been called since
C32_Witness ==
  /\ host.initDone /\ ~host.swRegistration
  /\ host.syncPc = "returned"
  /\ {host.calls[i] : i \in 1..Len(host.calls)} = HostOps
  /\ phase = "installed"


\* ------------------------------------------------ claims on the stores
\* the keys a store holds
StoreKeys(cs, name) ==
  {EntriesOf(cs, name)[i].key : i \in 1..Len(EntriesOf(cs, name))}

\* every URL of the manifest, the installed ones among them, is a static asset
ManifestIsStatic ==
  /\ \A u \in ManifestUrls : isStaticAsset(u)
  /\ \A i \in 1..Len(STATIC_ASSETS) : Urls[STATIC_ASSETS[i]] \in ManifestUrls

\* C33: every key of the current static store, and every URL of the
\* manifest, classifies as a static asset; every key of the current dynamic
\* store classifies as an API call or as other; no key is in both stores.
C33_KeysPartitioned ==
  /\ ManifestIsStatic
  /\ \A k \in StoreKeys(caches, STATIC_CACHE) : isStaticAsset(Urls[k])
  /\ \A k \in StoreKeys(caches, DYNAMIC_CACHE) : ~isStaticAsset(Urls[k])
  /\ StoreKeys(caches, STATIC_CACHE) \cap StoreKeys(caches, DYNAMIC_CACHE) = {}

\* the static store holds the root, the dynamic store an API and a page key
C33_Witness ==
  /\ StoreKeys(caches, STATIC_CACHE) = {RootKey}
  /\ StoreKeys(caches, DYNAMIC_CACHE) = {ApiKey, PageKey}
  /\ isAPICall(Urls[ApiKey]) /\ ~isAPICall(Urls[PageKey])


\* the two current stores
CurrentStores == {STATIC_CACHE, DYNAMIC_CACHE}

\* C34: every entry of the current static and dynamic stores is a 2xx
\* response; a write is started only for the 2xx response the handler's own
\* fetch returned, never for a response that is not 2xx, for a response taken
\* from a store or for the synthesized 503; the entries of the stores change
\* only when install writes the manifest or such a write is applied.
C34_OnlySuccessStored ==
  /\ [](\A name \in CurrentStores :
          \A i \in 1..Len(EntriesOf(caches, name)) :
            /\ EntriesOf(caches, name)[i].resp.status \in 200..299
            /\ EntriesOf(caches, name)[i].resp # OfflineResponse)
  /\ [](\A h \in H :
          fetchH[h].put # "none"
          => /\ fetchH[h].resp.status \in 200..299
             /\ fetchH[h].net = 1)
  /\ [](\A h \in H :
          (fetchH[h].pc = "done" /\ fetchH[h].resp.status \notin 200..299)
          => fetchH[h].put = "none")
  /\ [][(\E name \in CurrentStores :
           EntriesOf(caches', name) # EntriesOf(caches, name))
        => \/ phase = "install_addAll"
           \/ \E h \in H :
                /\ fetchH[h].put = "pending" /\ fetchH'[h].put = "applied"
                /\ EntriesOf(caches', fetchH[h].putCache)
                     [Len(EntriesOf(caches', fetchH[h].putCache))].resp
                     = fetchH[h].resp]_vars

\* a request answered 404 and a request that failed and was answered with
\* the synthesized 503 are done, and nothing of them is in a store
C34_Witness ==
  /\ fetchH[1].pc = "done" /\ fetchH[1].resp = Resp(404, 1)
  /\ fetchH[1].result = Resp(404, 1)
  /\ fetchH[2].pc = "done" /\ fetchH[2].resp = NetworkError
  /\ fetchH[2].threw /\ fetchH[2].result = OfflineResponse
  /\ Len(EntriesOf(caches, STATIC_CACHE)) = 1
  /\ EntriesOf(caches, DYNAMIC_CACHE) = <<>>


\* C35: a response that cacheFirst serves from its lookup is the entry of the
\* current static store for the key, and a response that networkFirst serves
\* after a failed fetch is the entry of the current dynamic store for the
\* key; neither is taken from a stale or an unrelated store.
C35_HitsFromOwnStore ==
  [][\A h \in H :
       (/\ fetchH[h].pc \in {"cf_match", "nf_match"}
        /\ fetchH'[h].pc = "done"
        /\ fetchH'[h].result = fetchH'[h].cached
        /\ fetchH'[h].cached # Undefined)
       => fetchH'[h].result
            = CacheMatch(caches, IF fetchH[h].pc = "cf_match" THEN STATIC_CACHE
                                 ELSE DYNAMIC_CACHE, KeyOf(h))]_vars


ManifestStored(cs) == CacheMatch(cs, STATIC_CACHE, STATIC_ASSETS[1]) # Undefined

\* the page has asked the waiting generation to take over
PromotionRequested ==
  \E i \in 1..Len(messages) : messages[i] = Message("SKIP_WAITING")

\* C37: install calls skipWaiting when, and only when, addAll has written the
\* manifest to the static store; a generation that replaces a controlling one
\* without the page's request therefore has the manifest in its static store.
C37_SelfPromotionOrder ==
  /\ [][(phase = "install_addAll" /\ phase' = "installed")
        => (skipWaitingCalled' <=> ManifestStored(caches'))]_vars
  /\ [][(phase # "install_addAll" /\ ~PromotionRequested')
        => skipWaitingCalled' = skipWaitingCalled]_vars
  /\ [][(host.controller /\ phase = "installed" /\ phase' = "activate_keys"
         /\ ~PromotionRequested)
        => skipWaitingCalled /\ ManifestStored(caches)]_vars

\* a generation has promoted itself over a controlling one
C37_Witness ==
  /\ host.controller
  /\ phase = "activated"
  /\ ~PromotionRequested
  /\ skipWaitingCalled
  /\ ManifestStored(caches)


Progress(rec) ==
  IF rec.pc = "load" THEN 0
  ELSE IF rec.pc = "submit" THEN 2 * rec.idx - 1
  ELSE IF rec.pc = "remove" THEN 2 * rec.idx
  ELSE 2 * Len(rec.loaded) + 1

====
